---- MODULE Spec2Model ----
(***************************************************************************)
(* Model of github.com/visvasity/cli: Run (command.go), groupCmd.resolve   *)
(* and groupCmd.run (group.go).  A token is a sequence of one-character    *)
(* strings, so that the prefix stripping and the split at '=' of resolve   *)
(* are computed, not assumed.  One action is one iteration of the scan     *)
(* loop of resolve, or one branch of the dispatch in run.                  *)
(***************************************************************************)
EXTENDS Integers, Sequences, FiniteSets, TLC

(***************************************************************************)
(* Bounds of the model.                                                    *)
(***************************************************************************)
MaxArgs == 3
MaxOsArgs == 1
MaxWideArgs == 2

(***************************************************************************)
(* Tokens.                                                                 *)
(***************************************************************************)
tG == <<"g">>
tL == <<"L">>
tA == <<"a">>
tHelp == <<"h", "e", "l", "p">>
tFlags == <<"f", "l", "a", "g", "s">>
tCommands == <<"c", "o", "m", "m", "a", "n", "d", "s">>
tSep == <<"-", "-">>
tXeq5 == <<"-", "x", "=", "5">>
tX == <<"-", "x">>
tFeq7 == <<"-", "f", "=", "7">>
tF == <<"-", "f">>
tV == <<"-", "v">>
tH == <<"-", "h">>
tBad == <<"-", "-", "-", "x">>
tVeqFalse == <<"-", "v", "=", "f", "a", "l", "s", "e">>
tVeqNo == <<"-", "v", "=", "n", "o">>
tDashHelp == <<"-", "h", "e", "l", "p">>
tDashDashHelp == <<"-", "-", "h", "e", "l", "p">>
tDashDashH == <<"-", "-", "h">>
tXeqEmpty == <<"-", "x", "=">>
t7 == <<"7">>
tEqX == <<"-", "=", "x">>
tDashEqX == <<"-", "-", "=", "x">>
tXeqAeqB == <<"-", "x", "=", "a", "=", "b">>
tDash == <<"-">>
tProg == <<".", "/", "c", "l", "i">>

Tokens ==
  {tG, tL, tA, tHelp, tFlags, tCommands, tSep, tXeq5, tX, tFeq7, tF, tV, tH,
   tBad, tVeqFalse, tVeqNo}

\* The other spellings of the help flag, an empty inline value, malformed
\* flags and the bare dash: drawn into the shorter token sequences only.
WideTokens ==
  Tokens \cup {tDashHelp, tDashDashHelp, tDashDashH, tXeqEmpty, t7, tEqX,
               tDashEqX, tXeqAeqB, tDash}

\* Token sequences of the tests and of the scenarios of the documentation.
Scenarios ==
  { <<tG, tL, tFeq7, tA>>,          \* server start -port=9090 extra
    <<tG, tL, tXeq5, tSep, tV>>,
    <<tL, tX, tG, tA>>,
    <<tL, tV, tVeqFalse, tA>>,      \* a boolean flag set, then cleared
    <<tG, tL, tDashDashHelp, tA>>,
    <<tL, tF, t7, tA>>,             \* an integer flag and its value
    <<tA, tDashDashHelp, tH, tV>> } \* flags named help and h

RECURSIVE SeqsUpTo(_, _)
SeqsUpTo(S, n) ==
  IF n = 0 THEN {<<>>}
  ELSE LET shorter == SeqsUpTo(S, n - 1)
       IN  shorter \cup {Append(q, t) : q \in shorter, t \in S}

ArgLists ==
  SeqsUpTo(Tokens, MaxArgs) \cup SeqsUpTo(WideTokens, MaxWideArgs)
    \cup Scenarios
OsArgLists == {<<tProg>> \o q : q \in SeqsUpTo(Tokens, MaxOsArgs)}

(***************************************************************************)
(* The command tree.  Node 0 is the root group that Run builds around      *)
(* flag.CommandLine; the other nodes are what NewGroup and NewCommand      *)
(* build.  A node's flags are listed in declaration order.  Node 3 is a    *)
(* group built with no subcommands.  Node 4 is a command of the program's  *)
(* own type whose Command method builds an unnamed FlagSet and registers   *)
(* its flags on it at every call.  Node 6 is a command that declares a     *)
(* string flag h and a boolean flag help.  fset is the name of a node's    *)
(* FlagSet.                                                                *)
(***************************************************************************)
Root == 0

NodeTab ==
  [n \in 0..6 |->
     CASE n = 0 -> [name |-> tProg, fset |-> tProg, group |-> TRUE,
                    fun |-> FALSE, fresh |-> FALSE, subcmds |-> <<>>,
                    flags |-> << [name |-> <<"x">>, kind |-> "string"] >>]
       [] n = 1 -> [name |-> tG, fset |-> tG, group |-> TRUE,
                    fun |-> FALSE, fresh |-> FALSE, subcmds |-> <<2, 3>>,
                    flags |-> << [name |-> <<"x">>, kind |-> "string"] >>]
       [] n = 2 -> [name |-> tL, fset |-> tL, group |-> FALSE,
                    fun |-> TRUE, fresh |-> FALSE, subcmds |-> <<>>,
                    flags |-> << [name |-> <<"f">>, kind |-> "int"],
                                 [name |-> <<"h">>, kind |-> "bool"] >>]
       [] n = 3 -> [name |-> tA, fset |-> tA, group |-> TRUE,
                    fun |-> FALSE, fresh |-> FALSE, subcmds |-> <<>>,
                    flags |-> <<>>]
       [] n = 4 -> [name |-> tL, fset |-> <<>>, group |-> FALSE,
                    fun |-> TRUE, fresh |-> TRUE, subcmds |-> <<>>,
                    flags |-> << [name |-> <<"v">>, kind |-> "bool"],
                                 [name |-> <<"f">>, kind |-> "int"] >>]
       [] n = 5 -> [name |-> tHelp, fset |-> tHelp, group |-> FALSE,
                    fun |-> TRUE, fresh |-> FALSE, subcmds |-> <<>>,
                    flags |-> <<>>]
       [] n = 6 -> [name |-> tA, fset |-> tA, group |-> FALSE,
                    fun |-> TRUE, fresh |-> FALSE, subcmds |-> <<>>,
                    flags |-> << [name |-> <<"h">>, kind |-> "string"],
                                 [name |-> <<"h", "e", "l", "p">>,
                                  kind |-> "bool"] >>] ]

Nodes == DOMAIN NodeTab

\* The command lists a caller passes to Run.
TopCmds == <<1, 4>>
ShadowCmds == <<5, 1, 4>>
HelpCmds == <<6>>
CmdLists == {<<>>, TopCmds, ShadowCmds, HelpCmds}

VARIABLES
  prev,        \* what the previous resolve of the same tokens returned
  nruns,       \* the number of this call of Run in the process
  clFlags,     \* the program has registered its flag on flag.CommandLine
  cmdsNil,     \* Run's cmds argument is a nil slice
  cmds,        \* Run's cmds argument (node ids)
  argv,        \* Run's args argument as the caller passed it
  isOsArgs,    \* the caller passed os.Args itself (argv[1] is the program)
  pc,          \* "start", "scan", "resolved", "done", "panic"
  args,        \* the args that resolve scans
  i,           \* the scan index of resolve (0-based)
  cmdpath,     \* resolve's cmdpath, as node ids
  cmdDataMap,  \* resolve's cmdDataMap: child name -> node id
  specialCmd,  \* the root groupCmd's specialCmd field
  flagval,     \* the value of every declared flag
  rest,        \* the residual arguments resolve returned
  consumed,    \* for each scanned token, how the loop consumed it
  stdout,      \* what was rendered: its kind, for which path, the usage
               \* line, the subcommand rows and the two tables of flags
  calls,       \* the executables invoked: node, arguments, the flag values
               \* at the call, and what the executable returned
  ret          \* what Run returned

vars ==
  <<prev, nruns, clFlags, cmdsNil, cmds, argv, isOsArgs, pc, args, i,
    cmdpath, cmdDataMap, specialCmd, flagval, rest, consumed, stdout, calls,
    ret>>

(***************************************************************************)
(* Helpers on strings.                                                     *)
(***************************************************************************)
NoTok == <<>>

\* strings.Index(name, "="), 1-based; 0 when there is none.
IndexEq(name) ==
  IF \E k \in 1..Len(name) : name[k] = "="
  THEN CHOOSE k \in 1..Len(name) :
         name[k] = "=" /\ \A j \in 1..(k - 1) : name[j] # "="
  ELSE 0

\* len(s) < 2 || s[0] != '-' is false
IsFlagTok(s) == Len(s) >= 2 /\ s[1] = "-"

\* Faulty variant: one dash is stripped, whatever follows it.
StripOneDash(s) == SubSeq(s, 2, Len(s))

\* name := s[1:]; if s[1] == '-' { name = s[2:] }
StripDashes(s) ==
  IF s[2] = "-" THEN SubSeq(s, 3, Len(s)) ELSE SubSeq(s, 2, Len(s))

\* len(name) == 0 || name[0] == '-' || name[0] == '='
BadSyntax(name) == Len(name) = 0 \/ name[1] = "-" \/ name[1] = "="

HasValue(name) == IndexEq(name) # 0
FlagName(name) ==
  IF HasValue(name) THEN SubSeq(name, 1, IndexEq(name) - 1) ELSE name
InlineValue(name) ==
  IF HasValue(name) THEN SubSeq(name, IndexEq(name) + 1, Len(name)) ELSE NoTok

specialCmds == {tHelp, tFlags, tCommands}

(***************************************************************************)
(* The flag-value capability of package flag.                              *)
(***************************************************************************)
Digits == {"0", "1", "2", "3", "4", "5", "6", "7", "8", "9"}
DigitVal(c) ==
  CASE c = "0" -> 0 [] c = "1" -> 1 [] c = "2" -> 2 [] c = "3" -> 3
    [] c = "4" -> 4 [] c = "5" -> 5 [] c = "6" -> 6 [] c = "7" -> 7
    [] c = "8" -> 8 [] c = "9" -> 9

RECURSIVE DecVal(_)
DecVal(t) ==
  IF Len(t) = 0 THEN 0
  ELSE 10 * DecVal(SubSeq(t, 1, Len(t) - 1)) + DigitVal(t[Len(t)])

\* intValue.Set: decimal digits with an optional sign.
IntOk(t) ==
  LET d == IF Len(t) > 0 /\ t[1] \in {"+", "-"} THEN Tail(t) ELSE t
  IN  Len(d) > 0 /\ \A k \in 1..Len(d) : d[k] \in Digits
IntVal(t) ==
  IF t[1] = "-" THEN 0 - DecVal(Tail(t))
  ELSE IF t[1] = "+" THEN DecVal(Tail(t)) ELSE DecVal(t)

\* boolValue.Set: strconv.ParseBool.
TrueTexts ==
  { <<"1">>, <<"t">>, <<"T">>, <<"t", "r", "u", "e">>,
    <<"T", "R", "U", "E">>, <<"T", "r", "u", "e">> }
FalseTexts ==
  { <<"0">>, <<"f">>, <<"F">>, <<"f", "a", "l", "s", "e">>,
    <<"F", "A", "L", "S", "E">>, <<"F", "a", "l", "s", "e">> }
BoolOk(t) == t \in TrueTexts \cup FalseTexts
BoolVal(t) == t \in TrueTexts

\* flag.Value.Set(text) for a flag of the given kind: does it succeed, and
\* the value it stores.
SetOk(kind, t) ==
  CASE kind = "bool" -> BoolOk(t)
    [] kind = "int" -> IntOk(t)
    [] kind = "string" -> TRUE
SetVal(kind, t) ==
  CASE kind = "bool" -> BoolVal(t)
    [] kind = "int" -> IntVal(t)
    [] kind = "string" -> t

(***************************************************************************)
(* Flag declarations: <<node, index in the node's flags>>.                 *)
(***************************************************************************)
Decls == {d \in Nodes \X (1..2) : d[2] <= Len(NodeTab[d[1]].flags)}
DeclName(d) == NodeTab[d[1]].flags[d[2]].name
DeclKind(d) == NodeTab[d[1]].flags[d[2]].kind
DefaultVal(d) ==
  CASE DeclKind(d) = "bool" -> FALSE
    [] DeclKind(d) = "int" -> 8
    [] DeclKind(d) = "string" -> <<"0">>

\* fset.Lookup(s) on one node: the declaration, or <<>> for nil.
NoDecl == <<>>
\* The flags that are registered: those of the commands, and the root's when
\* the program has registered it on flag.CommandLine.
Registered == {d \in Decls : d[1] # Root \/ clFlags}

FsetLookup(n, s) ==
  IF \E d \in Registered : d[1] = n /\ DeclName(d) = s
  THEN CHOOSE d \in Registered : d[1] = n /\ DeclName(d) = s
  ELSE NoDecl

\* lookup of resolve: from the deepest node of the path to the root.
RECURSIVE lookupFrom(_, _, _)
lookupFrom(path, k, s) ==
  IF k = 0 THEN NoDecl
  ELSE IF FsetLookup(path[k], s) # NoDecl THEN FsetLookup(path[k], s)
       ELSE lookupFrom(path, k - 1, s)
\* Faulty variant: the search runs from the root to the deepest node.
RECURSIVE lookupFromRoot(_, _, _)
lookupFromRoot(path, k, s) ==
  IF k > Len(path) THEN NoDecl
  ELSE IF FsetLookup(path[k], s) # NoDecl THEN FsetLookup(path[k], s)
       ELSE lookupFromRoot(path, k + 1, s)
lookupShallowest(path, s) == lookupFromRoot(path, 1, s)

\* Faulty variant: a flag that no node of the path declares is looked up in
\* the whole tree.
lookupAnywhere(path, s) ==
  IF lookupFrom(path, Len(path), s) # NoDecl
  THEN lookupFrom(path, Len(path), s)
  ELSE IF \E d \in Registered : DeclName(d) = s
       THEN CHOOSE d \in Registered : DeclName(d) = s
       ELSE NoDecl

lookup(path, s) == lookupFrom(path, Len(path), s)

(***************************************************************************)
(* Commands.                                                               *)
(***************************************************************************)
\* gc.subcmds: the root's are the cmds that Run was given.
Subcmds(n, top) == IF n = Root THEN top ELSE NodeTab[n].subcmds

\* cmdData.fun is not nil: a group's Command returns a nil CmdFunc.
HasFun(n) == NodeTab[n].fun

\* prepCmdDataMap: name -> command; a later command replaces an earlier one
\* of the same name.
prepCmdDataMap(list) ==
  [nm \in {NodeTab[list[k]].name : k \in 1..Len(list)} |->
     list[CHOOSE k \in 1..Len(list) :
            /\ NodeTab[list[k]].name = nm
            /\ \A j \in (k + 1)..Len(list) : NodeTab[list[j]].name # nm]]

\* c.Command() of every command of a set.  A command that keeps its FlagSet
\* (NewCommand, NewGroup) returns it as it is; one that builds a FlagSet in
\* Command registers its flags anew, and fset.StringVar and the like store
\* the default in the variable.
Commanded(S, fv) ==
  [d \in Decls |->
     IF d[1] \in S /\ NodeTab[d[1]].fresh THEN DefaultVal(d) ELSE fv[d]]
Range(q) == {q[k] : k \in 1..Len(q)}

\* Errors and results.
Nil == [kind |-> "nil", tok |-> NoTok]
Error(kind, tok) == [kind |-> kind, tok |-> tok]

\* What the executable of a leaf may return.
FunResults == {Nil, Error("ExecutableError", NoTok)}

Last(q) == q[Len(q)]

(***************************************************************************)
(* Initial state: the arguments of one call of Run, and every flag at its  *)
(* default.                                                                *)
(***************************************************************************)
Init ==
  /\ prev = <<>>
  /\ nruns = 1
  /\ clFlags \in BOOLEAN
  /\ cmdsNil \in BOOLEAN
  /\ cmds \in (IF cmdsNil THEN {<<>>} ELSE CmdLists)
  /\ isOsArgs \in BOOLEAN
  /\ argv \in (IF isOsArgs THEN OsArgLists ELSE ArgLists)
  /\ pc = "start"
  /\ args = <<>>
  /\ i = 0
  /\ cmdpath = <<>>
  /\ cmdDataMap = <<>>
  /\ specialCmd = NoTok
  /\ flagval = [d \in Decls |-> DefaultVal(d)]
  /\ rest = <<>>
  /\ consumed = <<>>
  /\ stdout = <<>>
  /\ calls = <<>>
  /\ ret = Nil

(***************************************************************************)
(* Run.                                                                    *)
(***************************************************************************)

\* Faulty variant: a nil command list is resolved like an empty one.
RunNilCmdsResolves ==
  /\ pc = "start"
  /\ cmdsNil
  /\ args' = argv
  /\ specialCmd' = NoTok
  /\ cmdDataMap' = prepCmdDataMap(<<>>)
  /\ cmdpath' = <<Root>>
  /\ i' = 0
  /\ pc' = "scan"
  /\ UNCHANGED <<prev, nruns, clFlags, cmdsNil, cmds, argv, isOsArgs, flagval,
                 rest, consumed, stdout, calls, ret>>

\* if cmds == nil { return os.ErrInvalid }
RunNilCmds ==
  /\ pc = "start"
  /\ cmdsNil
  /\ pc' = "done"
  /\ ret' = Error("ErrInvalid", NoTok)
  /\ UNCHANGED <<prev, nruns, clFlags, cmdsNil, cmds, argv, isOsArgs, args, i,
                 cmdpath, cmdDataMap, specialCmd, flagval, rest, consumed,
                 stdout, calls>>

\* &args[0] of an empty slice: index out of range.
RunPanic ==
  /\ pc = "start"
  /\ ~cmdsNil
  /\ Len(argv) = 0
  /\ pc' = "panic"
  /\ UNCHANGED <<prev, nruns, clFlags, cmdsNil, cmds, argv, isOsArgs, args, i,
                 cmdpath, cmdDataMap, specialCmd, flagval, rest, consumed,
                 stdout, calls, ret>>

\* Faulty variant: Run starts from the default value of every flag.
RunResolveResets ==
  /\ pc = "start"
  /\ ~cmdsNil
  /\ Len(argv) > 0
  /\ args' = IF isOsArgs THEN Tail(argv) ELSE argv
  /\ specialCmd' = NoTok
  /\ cmdDataMap' = prepCmdDataMap(Subcmds(Root, cmds))
  /\ flagval' = [d \in Decls |-> DefaultVal(d)]
  /\ cmdpath' = <<Root>>
  /\ i' = 0
  /\ pc' = "scan"
  /\ UNCHANGED <<prev, nruns, clFlags, cmdsNil, cmds, argv, isOsArgs, rest,
                 consumed, stdout, calls, ret>>

\* Faulty variant: the program name of os.Args is scanned as a token.
RunResolveKeepsProgram ==
  /\ pc = "start"
  /\ ~cmdsNil
  /\ Len(argv) > 0
  /\ args' = argv
  /\ specialCmd' = NoTok
  /\ cmdDataMap' = prepCmdDataMap(Subcmds(Root, cmds))
  /\ flagval' = Commanded(Range(Subcmds(Root, cmds)), flagval)
  /\ cmdpath' = <<Root>>
  /\ i' = 0
  /\ pc' = "scan"
  /\ UNCHANGED <<prev, nruns, clFlags, cmdsNil, cmds, argv, isOsArgs, rest,
                 consumed, stdout, calls, ret>>

\* Faulty variant: every call of Run works on the same root, so the marker
\* of an earlier call is still set.
RunResolveKeepsMarker ==
  /\ pc = "start"
  /\ ~cmdsNil
  /\ Len(argv) > 0
  /\ args' = IF isOsArgs THEN Tail(argv) ELSE argv
  /\ cmdDataMap' = prepCmdDataMap(Subcmds(Root, cmds))
  /\ flagval' = Commanded(Range(Subcmds(Root, cmds)), flagval)
  /\ cmdpath' = <<Root>>
  /\ i' = 0
  /\ pc' = "scan"
  /\ UNCHANGED <<prev, nruns, clFlags, cmdsNil, cmds, argv, isOsArgs,
                 specialCmd, rest, consumed, stdout, calls, ret>>

\* The root groupCmd is built, os.Args loses the program name, and resolve
\* runs up to its loop.
RunResolve ==
  /\ pc = "start"
  /\ ~cmdsNil
  /\ Len(argv) > 0
  /\ args' = IF isOsArgs THEN Tail(argv) ELSE argv
  /\ specialCmd' = NoTok
  /\ cmdDataMap' = prepCmdDataMap(Subcmds(Root, cmds))
  /\ flagval' = Commanded(Range(Subcmds(Root, cmds)), flagval)
  /\ cmdpath' = <<Root>>
  /\ i' = 0
  /\ pc' = "scan"
  /\ UNCHANGED <<prev, nruns, clFlags, cmdsNil, cmds, argv, isOsArgs, rest,
                 consumed, stdout, calls, ret>>

(***************************************************************************)
(* resolve: one action per way through one iteration of the loop.          *)
(***************************************************************************)
Scanning == pc = "scan" /\ i < Len(args)
Tok == args[i + 1]

\* Faulty variant: run goes on to the dispatch after an error of resolve.
FailThenDispatch(e) ==
  /\ pc' = "resolved"
  /\ ret' = e
  /\ UNCHANGED <<prev, nruns, clFlags, cmdsNil, cmds, argv, isOsArgs, args, i,
                 cmdpath, cmdDataMap, specialCmd, flagval, rest, consumed,
                 stdout, calls>>

\* Faulty variant: a failing resolve puts every flag back to its default.
FailUndoes(e) ==
  /\ pc' = "done"
  /\ ret' = e
  /\ flagval' = [d \in Decls |-> DefaultVal(d)]
  /\ UNCHANGED <<prev, nruns, clFlags, cmdsNil, cmds, argv, isOsArgs, args, i,
                 cmdpath, cmdDataMap, specialCmd, rest, consumed, stdout,
                 calls>>

\* return nil, nil, fmt.Errorf(...) in resolve, and run returns the error.
Fail(e) ==
  /\ pc' = "done"
  /\ ret' = e
  /\ UNCHANGED <<prev, nruns, clFlags, cmdsNil, cmds, argv, isOsArgs, args, i,
                 cmdpath, cmdDataMap, specialCmd, flagval, rest, consumed,
                 stdout, calls>>

\* The same after the look-ahead has moved i to k.
FailAt(k, e) ==
  /\ pc' = "done"
  /\ ret' = e
  /\ i' = k
  /\ UNCHANGED <<prev, nruns, clFlags, cmdsNil, cmds, argv, isOsArgs, args,
                 cmdpath, cmdDataMap, specialCmd, flagval, rest, consumed,
                 stdout, calls>>

\* Faulty variant: the residual arguments are cut one token late.
ReturnOneLate(k) ==
  /\ i' = k
  /\ rest' = SubSeq(args, k + 2, Len(args))
  /\ pc' = "resolved"

\* return cmdpath, args[i:], nil with i at k.
Return(k) ==
  /\ i' = k
  /\ rest' = SubSeq(args, k + 1, Len(args))
  /\ pc' = "resolved"

\* the loop condition fails
ScanEnd ==
  /\ pc = "scan"
  /\ i >= Len(args)
  /\ Return(i)
  /\ UNCHANGED <<prev, nruns, clFlags, cmdsNil, cmds, argv, isOsArgs, args,
                 cmdpath, cmdDataMap, specialCmd, flagval, consumed, stdout,
                 calls, ret>>

\* Faulty variant: "--" is skipped and the scan goes on.
ScanSeparatorContinues ==
  /\ pc = "scan" /\ i < Len(args)
  /\ args[i + 1] = tSep
  /\ i' = i + 1
  /\ consumed' = Append(consumed, "separator")
  /\ UNCHANGED <<prev, nruns, clFlags, cmdsNil, cmds, argv, isOsArgs, args,
                 pc, cmdpath, cmdDataMap, specialCmd, flagval, rest, stdout,
                 calls, ret>>

\* s == "--": i++, break
ScanSeparator ==
  /\ Scanning
  /\ Tok = tSep
  /\ Return(i + 1)
  /\ consumed' = Append(consumed, "separator")
  /\ UNCHANGED <<prev, nruns, clFlags, cmdsNil, cmds, argv, isOsArgs, args,
                 cmdpath, cmdDataMap, specialCmd, flagval, stdout, calls,
                 ret>>

\* Faulty variant: the argument is skipped and the scan goes on.
ScanArgumentSkipped ==
  /\ Scanning
  /\ Tok # tSep
  /\ ~IsFlagTok(Tok)
  /\ DOMAIN cmdDataMap = {}
  /\ i' = i + 1
  /\ UNCHANGED <<prev, nruns, clFlags, cmdsNil, cmds, argv, isOsArgs, args,
                 pc, cmdpath, cmdDataMap, specialCmd, flagval, rest, consumed,
                 stdout, calls, ret>>

\* a non-flag argument while no subcommand can follow: break
ScanArgument ==
  /\ Scanning
  /\ Tok # tSep
  /\ ~IsFlagTok(Tok)
  /\ DOMAIN cmdDataMap = {}
  /\ Return(i)
  /\ UNCHANGED <<prev, nruns, clFlags, cmdsNil, cmds, argv, isOsArgs, args,
                 cmdpath, cmdDataMap, specialCmd, flagval, consumed, stdout,
                 calls, ret>>

\* Faulty variant: the scan stops once a leaf has joined the path.
ScanSubcommandLeafStops ==
  /\ Scanning
  /\ Tok # tSep
  /\ ~IsFlagTok(Tok)
  /\ Tok \in DOMAIN cmdDataMap
  /\ LET subcmd == cmdDataMap[Tok]
     IN  /\ cmdpath' = Append(cmdpath, subcmd)
         /\ cmdDataMap' = IF NodeTab[subcmd].group
                          THEN prepCmdDataMap(Subcmds(subcmd, cmds))
                          ELSE prepCmdDataMap(<<>>)
         /\ IF NodeTab[subcmd].group
            THEN i' = i + 1 /\ UNCHANGED <<pc, rest>>
            ELSE Return(i + 1)
  /\ consumed' = Append(consumed, "subcommand")
  /\ UNCHANGED <<prev, nruns, clFlags, cmdsNil, cmds, argv, isOsArgs, args,
                 specialCmd, flagval, stdout, calls, ret>>

\* Faulty variant: entering a child leaves the map of the parent's children.
ScanSubcommandKeepsMap ==
  /\ Scanning
  /\ Tok # tSep
  /\ ~IsFlagTok(Tok)
  /\ Tok \in DOMAIN cmdDataMap
  /\ cmdpath' = Append(cmdpath, cmdDataMap[Tok])
  /\ i' = i + 1
  /\ consumed' = Append(consumed, "subcommand")
  /\ UNCHANGED <<prev, nruns, clFlags, cmdsNil, cmds, argv, isOsArgs, args,
                 pc, cmdDataMap, specialCmd, flagval, rest, stdout, calls,
                 ret>>

\* Faulty variant: a reserved name at the top level is the reserved command
\* even when a child has that name.
ScanSubcommandSpecialFirst ==
  /\ Scanning
  /\ Tok # tSep
  /\ ~IsFlagTok(Tok)
  /\ Tok \in DOMAIN cmdDataMap
  /\ IF Len(cmdpath) = 1 /\ Tok \in specialCmds
     THEN /\ specialCmd' = Tok
          /\ UNCHANGED <<cmdpath, cmdDataMap, flagval>>
     ELSE LET subcmd == cmdDataMap[Tok]
              list == IF NodeTab[subcmd].group THEN Subcmds(subcmd, cmds)
                      ELSE <<>>
          IN  /\ cmdpath' = Append(cmdpath, subcmd)
              /\ cmdDataMap' = prepCmdDataMap(list)
              /\ flagval' = Commanded(Range(list), flagval)
              /\ specialCmd' = specialCmd
  /\ i' = i + 1
  /\ consumed' = Append(consumed, "subcommand")
  /\ UNCHANGED <<prev, nruns, clFlags, cmdsNil, cmds, argv, isOsArgs, args,
                 pc, rest, stdout, calls, ret>>

\* the name of a subcommand: it joins the path; a group's subcommands
\* become the candidates, a leaf leaves none.
ScanSubcommand ==
  /\ Scanning
  /\ Tok # tSep
  /\ ~IsFlagTok(Tok)
  /\ Tok \in DOMAIN cmdDataMap
  /\ LET subcmd == cmdDataMap[Tok]
         list == IF NodeTab[subcmd].group THEN Subcmds(subcmd, cmds)
                 ELSE <<>>
     IN  /\ cmdpath' = Append(cmdpath, subcmd)
         /\ cmdDataMap' = prepCmdDataMap(list)
         /\ flagval' = Commanded(Range(list), flagval)
  /\ i' = i + 1
  /\ consumed' = Append(consumed, "subcommand")
  /\ UNCHANGED <<prev, nruns, clFlags, cmdsNil, cmds, argv, isOsArgs, args,
                 pc, specialCmd, rest, stdout, calls, ret>>

\* Faulty variant: the reserved names are recognised at any depth.
ScanSpecialAnyDepth ==
  /\ Scanning
  /\ Tok # tSep
  /\ ~IsFlagTok(Tok)
  /\ DOMAIN cmdDataMap # {}
  /\ Tok \notin DOMAIN cmdDataMap
  /\ Tok \in specialCmds
  /\ specialCmd' = Tok
  /\ i' = i + 1
  /\ consumed' = Append(consumed, "special")
  /\ UNCHANGED <<prev, nruns, clFlags, cmdsNil, cmds, argv, isOsArgs, args,
                 pc, cmdpath, cmdDataMap, flagval, rest, stdout, calls, ret>>

\* Faulty variant: a reserved name sets the marker only while it is unset.
ScanSpecialOnce ==
  /\ Scanning
  /\ Tok # tSep
  /\ ~IsFlagTok(Tok)
  /\ DOMAIN cmdDataMap # {}
  /\ Tok \notin DOMAIN cmdDataMap
  /\ Len(cmdpath) = 1
  /\ Tok \in specialCmds
  /\ specialCmd' = IF specialCmd = NoTok THEN Tok ELSE specialCmd
  /\ i' = i + 1
  /\ consumed' = Append(consumed, "special")
  /\ UNCHANGED <<prev, nruns, clFlags, cmdsNil, cmds, argv, isOsArgs, args,
                 pc, cmdpath, cmdDataMap, flagval, rest, stdout, calls, ret>>

\* Faulty variant: a reserved name ends the scan.
ScanSpecialStops ==
  /\ Scanning
  /\ Tok # tSep
  /\ ~IsFlagTok(Tok)
  /\ DOMAIN cmdDataMap # {}
  /\ Tok \notin DOMAIN cmdDataMap
  /\ Len(cmdpath) = 1
  /\ Tok \in specialCmds
  /\ specialCmd' = Tok
  /\ Return(i + 1)
  /\ consumed' = Append(consumed, "special")
  /\ UNCHANGED <<prev, nruns, clFlags, cmdsNil, cmds, argv, isOsArgs, args,
                 cmdpath, cmdDataMap, flagval, stdout, calls, ret>>

\* help, flags or commands at the top level
ScanSpecial ==
  /\ Scanning
  /\ Tok # tSep
  /\ ~IsFlagTok(Tok)
  /\ DOMAIN cmdDataMap # {}
  /\ Tok \notin DOMAIN cmdDataMap
  /\ Len(cmdpath) = 1
  /\ Tok \in specialCmds
  /\ specialCmd' = Tok
  /\ i' = i + 1
  /\ consumed' = Append(consumed, "special")
  /\ UNCHANGED <<prev, nruns, clFlags, cmdsNil, cmds, argv, isOsArgs, args,
                 pc, cmdpath, cmdDataMap, flagval, rest, stdout, calls, ret>>

\* command not defined
ScanNotFound ==
  /\ Scanning
  /\ Tok # tSep
  /\ ~IsFlagTok(Tok)
  /\ DOMAIN cmdDataMap # {}
  /\ Tok \notin DOMAIN cmdDataMap
  /\ ~(Len(cmdpath) = 1 /\ Tok \in specialCmds)
  /\ Fail(Error("CommandNotFound", Tok))

IsFlag == Scanning /\ Tok # tSep /\ IsFlagTok(Tok)
Name == FlagName(StripDashes(Tok))
Found == lookup(cmdpath, Name)

\* bad flag syntax
ScanBadFlag ==
  /\ IsFlag
  /\ BadSyntax(StripDashes(Tok))
  /\ Fail(Error("BadFlagSyntax", Tok))

\* Faulty variant: -help and -h get no special treatment.
ScanHelpFlagUnknown ==
  /\ IsFlag
  /\ ~BadSyntax(StripDashes(Tok))
  /\ Found = NoDecl
  /\ Name \in {tHelp, <<"h">>}
  /\ Fail(Error("UnknownFlag", Name))

\* Faulty variant: -help and -h are the help aliases whether or not a
\* FlagSet of the path declares a flag of that name.
ScanHelpFlagFirst ==
  /\ IsFlag
  /\ ~BadSyntax(StripDashes(Tok))
  /\ Name \in {tHelp, <<"h">>}
  /\ specialCmd' = tHelp
  /\ i' = i + 1
  /\ consumed' = Append(consumed, "helpflag")
  /\ UNCHANGED <<prev, nruns, clFlags, cmdsNil, cmds, argv, isOsArgs, args,
                 pc, cmdpath, cmdDataMap, flagval, rest, stdout, calls, ret>>

\* -help or -h that no FlagSet of the path declares
ScanHelpFlag ==
  /\ IsFlag
  /\ ~BadSyntax(StripDashes(Tok))
  /\ Found = NoDecl
  /\ Name \in {tHelp, <<"h">>}
  /\ specialCmd' = tHelp
  /\ i' = i + 1
  /\ consumed' = Append(consumed, "helpflag")
  /\ UNCHANGED <<prev, nruns, clFlags, cmdsNil, cmds, argv, isOsArgs, args,
                 pc, cmdpath, cmdDataMap, flagval, rest, stdout, calls, ret>>

\* flag provided but not defined
ScanUnknownFlag ==
  /\ IsFlag
  /\ ~BadSyntax(StripDashes(Tok))
  /\ Found = NoDecl
  /\ Name \notin {tHelp, <<"h">>}
  /\ Fail(Error("UnknownFlag", Name))

\* Faulty variant: a boolean flag ignores its inline value.
ScanBoolFlagIgnoresValue ==
  /\ IsFlag
  /\ ~BadSyntax(StripDashes(Tok))
  /\ Found # NoDecl
  /\ DeclKind(Found) = "bool"
  /\ flagval' = [flagval EXCEPT ![Found] = TRUE]
  /\ i' = i + 1
  /\ consumed' = Append(consumed, "flag")
  /\ UNCHANGED <<prev, nruns, clFlags, cmdsNil, cmds, argv, isOsArgs, args,
                 pc, cmdpath, cmdDataMap, specialCmd, rest, stdout, calls,
                 ret>>

\* a boolean flag: set from the inline value, or to true
ScanBoolFlag ==
  /\ IsFlag
  /\ ~BadSyntax(StripDashes(Tok))
  /\ Found # NoDecl
  /\ DeclKind(Found) = "bool"
  /\ LET text == IF HasValue(StripDashes(Tok))
                 THEN InlineValue(StripDashes(Tok))
                 ELSE <<"t", "r", "u", "e">>
     IN  IF SetOk("bool", text)
         THEN /\ flagval' = [flagval EXCEPT ![Found] = SetVal("bool", text)]
              /\ i' = i + 1
              /\ consumed' = Append(consumed, "flag")
              /\ UNCHANGED <<prev, nruns, clFlags, cmdsNil, cmds, argv,
                             isOsArgs, args, pc, cmdpath, cmdDataMap,
                             specialCmd, rest, stdout, calls, ret>>
         ELSE Fail(Error("InvalidFlagValue", Name))

IsValueFlag ==
  /\ IsFlag
  /\ ~BadSyntax(StripDashes(Tok))
  /\ Found # NoDecl
  /\ DeclKind(Found) # "bool"

\* Faulty variant: a token that looks like a flag is not taken as a value.
LookAheadNotFlagLike ==
  /\ ~HasValue(StripDashes(Tok))
  /\ i + 1 < Len(args)
  /\ ~IsFlagTok(args[i + 2])

\* if !hasValue && i+1 < len(args) { the next argument is the value }
LookAhead == ~HasValue(StripDashes(Tok)) /\ i + 1 < Len(args)
ValueText ==
  IF HasValue(StripDashes(Tok)) THEN InlineValue(StripDashes(Tok))
  ELSE args[i + 2]

\* flag needs an argument
ScanMissingValue ==
  /\ IsValueFlag
  /\ ~HasValue(StripDashes(Tok))
  /\ ~LookAhead
  /\ Fail(Error("MissingFlagValue", Name))

\* Faulty variant: a flag that several nodes of the path declare is set on
\* any one of them.
ScanValueFlagAnyNode ==
  /\ IsValueFlag
  /\ HasValue(StripDashes(Tok)) \/ LookAhead
  /\ SetOk(DeclKind(Found), ValueText)
  /\ \E k \in 1..Len(cmdpath) :
       /\ FsetLookup(cmdpath[k], Name) # NoDecl
       /\ flagval' = [flagval EXCEPT ![FsetLookup(cmdpath[k], Name)] =
                        SetVal(DeclKind(Found), ValueText)]
  /\ i' = IF LookAhead THEN i + 2 ELSE i + 1
  /\ consumed' = IF LookAhead
                 THEN consumed \o <<"flag", "value">>
                 ELSE Append(consumed, "flag")
  /\ UNCHANGED <<prev, nruns, clFlags, cmdsNil, cmds, argv, isOsArgs, args,
                 pc, cmdpath, cmdDataMap, specialCmd, rest, stdout, calls,
                 ret>>

\* Faulty variant: the index moves past the next token whether or not the
\* value was taken from it.
ScanValueFlagSkipsNext ==
  /\ IsValueFlag
  /\ HasValue(StripDashes(Tok)) \/ LookAhead
  /\ IF SetOk(DeclKind(Found), ValueText)
     THEN /\ flagval' =
               [flagval EXCEPT ![Found] = SetVal(DeclKind(Found), ValueText)]
          /\ i' = i + 2
          /\ consumed' = IF LookAhead
                         THEN consumed \o <<"flag", "value">>
                         ELSE Append(consumed, "flag")
          /\ UNCHANGED <<prev, nruns, clFlags, cmdsNil, cmds, argv, isOsArgs,
                         args, pc, cmdpath, cmdDataMap, specialCmd, rest,
                         stdout, calls, ret>>
     ELSE FailAt(IF LookAhead THEN i + 1 ELSE i,
                 Error("InvalidFlagValue", Name))

\* a non-boolean flag with its value, inline or the next argument
ScanValueFlag ==
  /\ IsValueFlag
  /\ HasValue(StripDashes(Tok)) \/ LookAhead
  /\ IF SetOk(DeclKind(Found), ValueText)
     THEN /\ flagval' =
               [flagval EXCEPT ![Found] = SetVal(DeclKind(Found), ValueText)]
          /\ i' = IF LookAhead THEN i + 2 ELSE i + 1
          /\ consumed' = IF LookAhead
                         THEN consumed \o <<"flag", "value">>
                         ELSE Append(consumed, "flag")
          /\ UNCHANGED <<prev, nruns, clFlags, cmdsNil, cmds, argv, isOsArgs,
                         args, pc, cmdpath, cmdDataMap, specialCmd, rest,
                         stdout, calls, ret>>
     ELSE FailAt(IF LookAhead THEN i + 1 ELSE i,
                 Error("InvalidFlagValue", Name))

(***************************************************************************)
(* run: the dispatch after a successful resolve.                           *)
(***************************************************************************)
(***************************************************************************)
(* The usage line of the help.                                             *)
(***************************************************************************)
\* numFlags: the flags VisitAll visits.
numFlags(n) == Cardinality({d \in Registered : d[1] = n})

\* filepath.Split: what follows the last separator.
Base(name) ==
  LET seps == {k \in 1..Len(name) : name[k] = "/"}
      last == IF seps = {} THEN 0
              ELSE CHOOSE k \in seps : \A j \in seps : j <= k
  IN  SubSeq(name, last + 1, Len(name))

\* strings.Join(words, " ")
RECURSIVE Join(_)
Join(words) ==
  IF Len(words) = 0 THEN <<>>
  ELSE IF Len(words) = 1 THEN words[1]
  ELSE words[1] \o <<" ">> \o Join(Tail(words))

WordFlags == <<"<", "f", "l", "a", "g", "s", ">">>
WordSubcommand ==
  <<"<", "s", "u", "b", "c", "o", "m", "m", "a", "n", "d", ">">>
WordArgs == <<"<", "a", "r", "g", "s", ">">>

\* Faulty variant: <flags> comes right after the root's name.
getUsageFlagsFirst(path) ==
  LET names == [k \in 1..Len(path) |->
                  IF k = 1 THEN Base(NodeTab[path[k]].fset)
                  ELSE NodeTab[path[k]].fset]
      flags == IF \E k \in 1..Len(path) : numFlags(path[k]) # 0
               THEN <<WordFlags>> ELSE <<>>
      sub == IF NodeTab[Last(path)].group THEN <<WordSubcommand>> ELSE <<>>
  IN  Join(<<names[1]>> \o flags \o Tail(names) \o sub \o <<WordArgs>>)

getUsage(path) ==
  LET names == [k \in 1..Len(path) |->
                  IF k = 1 THEN Base(NodeTab[path[k]].fset)
                  ELSE NodeTab[path[k]].fset]
      flags == IF \E k \in 1..Len(path) : numFlags(path[k]) # 0
               THEN <<WordFlags>> ELSE <<>>
      sub == IF NodeTab[Last(path)].group THEN <<WordSubcommand>> ELSE <<>>
  IN  Join(names \o flags \o sub \o <<WordArgs>>)

(***************************************************************************)
(* The tables of the help.                                                 *)
(***************************************************************************)
\* The order of the bytes of the names.
AsciiOrder ==
  <<".", "/", "L", "a", "c", "d", "e", "f", "g", "h", "i", "l", "m", "n",
    "o", "p", "s", "v", "x">>
Ord(c) == CHOOSE k \in 1..Len(AsciiOrder) : AsciiOrder[k] = c

\* a < b of two Go strings.
RECURSIVE LessStr(_, _)
LessStr(a, b) ==
  IF Len(b) = 0 THEN FALSE
  ELSE IF Len(a) = 0 THEN TRUE
  ELSE IF a[1] # b[1] THEN Ord(a[1]) < Ord(b[1])
  ELSE LessStr(Tail(a), Tail(b))

\* sort.SliceStable by name: each element goes behind those not above it.
RECURSIVE InsertName(_, _)
InsertName(x, sorted) ==
  IF Len(sorted) = 0 THEN <<x>>
  ELSE IF LessStr(x, sorted[1]) THEN <<x>> \o sorted
  ELSE <<sorted[1]>> \o InsertName(x, Tail(sorted))
RECURSIVE SortNames(_, _)
SortNames(q, k) ==
  IF k = 0 THEN <<>> ELSE InsertName(q[k], SortNames(q, k - 1))

\* VisitAll of a FlagSet: its flags in the order of their names.
RECURSIVE SortedNames(_)
SortedNames(S) ==
  IF S = {} THEN <<>>
  ELSE LET m == CHOOSE x \in S : \A y \in S : ~LessStr(y, x)
       IN  <<m>> \o SortedNames(S \ {m})

\* getName: the base of the name that Command returns.
getName(n) == Base(NodeTab[n].name)

\* Select(q, Keep): the elements of q that Keep holds of, in order.
RECURSIVE SelectGroups(_, _)
SelectGroups(list, group) ==
  IF Len(list) = 0 THEN <<>>
  ELSE (IF NodeTab[list[1]].group = group THEN <<getName(list[1])>>
        ELSE <<>>) \o SelectGroups(Tail(list), group)

BlankRow == <<>>

\* The rows of the reserved commands.
SpecialRows == <<tHelp, tFlags, tCommands>>

\* Faulty variant: the children are listed in the order they were given.
getSubcommandsUnsorted(path, top) ==
  LET spcmds == IF Len(path) = 1 THEN SpecialRows ELSE <<>>
      list == IF NodeTab[Last(path)].group THEN Subcmds(Last(path), top)
              ELSE <<>>
      subcmds == SelectGroups(list, FALSE)
      groups == SelectGroups(list, TRUE)
      withSub == IF Len(subcmds) > 0
                 THEN spcmds
                        \o (IF Len(spcmds) > 0 THEN <<BlankRow>> ELSE <<>>)
                        \o subcmds
                 ELSE spcmds
  IN  IF Len(groups) > 0
      THEN withSub \o (IF Len(withSub) > 0 THEN <<BlankRow>> ELSE <<>>)
             \o groups
      ELSE withSub

\* getSubcommands: the rows of the subcommand table, by name.
getSubcommands(path, top) ==
  LET spcmds == IF Len(path) = 1 THEN SpecialRows ELSE <<>>
      list == IF NodeTab[Last(path)].group THEN Subcmds(Last(path), top)
              ELSE <<>>
      plain == SelectGroups(list, FALSE)
      subcmds == SortNames(plain, Len(plain))
      grps == SelectGroups(list, TRUE)
      groups == SortNames(grps, Len(grps))
      withSub == IF Len(subcmds) > 0
                 THEN spcmds
                        \o (IF Len(spcmds) > 0 THEN <<BlankRow>> ELSE <<>>)
                        \o subcmds
                 ELSE spcmds
  IN  IF Len(groups) > 0
      THEN withSub \o (IF Len(withSub) > 0 THEN <<BlankRow>> ELSE <<>>)
             \o groups
      ELSE withSub

\* Faulty variant: the flags are printed in the order of their declaration.
getFlagsDeclared(n) ==
  LET ks == {d[2] : d \in {e \in Registered : e[1] = n}}
  IN  [k \in 1..Cardinality(ks) |-> <<n, k>>]

\* getFlags and PrintDefaults: the flags of a node as they are printed.
getFlags(n) ==
  LET names == SortedNames({DeclName(d) : d \in {e \in Registered : e[1] = n}})
  IN  [k \in 1..Len(names) |-> FsetLookup(n, names[k])]

\* Faulty variant: of several ancestors that declare a name, the one nearest
\* to the root is shown.
getInheritedFlagsFirst(path) ==
  LET flagMap ==
        [nm \in {DeclName(d) :
                   d \in {e \in Registered :
                            \E k \in 1..(Len(path) - 1) : e[1] = path[k]}} |->
           LET ks == {k \in 1..(Len(path) - 1) :
                        FsetLookup(path[k], nm) # NoDecl}
               first == CHOOSE k \in ks : \A j \in ks : k <= j
           IN  FsetLookup(path[first], nm)]
      names == SortedNames(DOMAIN flagMap)
  IN  [k \in 1..Len(names) |-> flagMap[names[k]]]

\* getInheritedFlags and PrintDefaults: for every flag name of the nodes
\* before the last, the flag of the last node of those that declares it.
getInheritedFlags(path) ==
  LET flagMap ==
        [nm \in {DeclName(d) :
                   d \in {e \in Registered :
                            \E k \in 1..(Len(path) - 1) : e[1] = path[k]}} |->
           LET ks == {k \in 1..(Len(path) - 1) :
                        FsetLookup(path[k], nm) # NoDecl}
               last == CHOOSE k \in ks : \A j \in ks : j <= k
           IN  FsetLookup(path[last], nm)]
      names == SortedNames(DOMAIN flagMap)
  IN  [k \in 1..Len(names) |-> flagMap[names[k]]]

\* The commands whose Command method the rendering calls: getName on every
\* subcommand of the last node (help, commands), getFlags on the last node
\* (help).
Rendered(kind) ==
  (IF kind \in {"help", "commands"} /\ NodeTab[Last(cmdpath)].group
   THEN Range(Subcmds(Last(cmdpath), cmds)) ELSE {})
    \cup (IF kind = "help" THEN {Last(cmdpath)} ELSE {})

Render(kind) ==
  /\ stdout' = Append(stdout,
                      [kind |-> kind, path |-> cmdpath,
                       usage |-> IF kind = "help" THEN getUsage(cmdpath)
                                 ELSE <<>>,
                       subcmds |-> IF kind \in {"help", "commands"}
                                   THEN getSubcommands(cmdpath, cmds)
                                   ELSE <<>>,
                       flags |-> IF kind \in {"help", "flags"}
                                 THEN getFlags(Last(cmdpath)) ELSE <<>>,
                       iflags |-> IF kind = "help"
                                  THEN getInheritedFlags(cmdpath) ELSE <<>>])
  /\ flagval' = Commanded(Rendered(kind), flagval)
  /\ ret' = Nil
  /\ pc' = "done"
  /\ UNCHANGED <<prev, nruns, clFlags, cmdsNil, cmds, argv, isOsArgs, args, i,
                 cmdpath, cmdDataMap, specialCmd, rest, consumed, calls>>

\* case "help": return gc.printHelp(...)
DispatchHelp ==
  /\ pc = "resolved"
  /\ specialCmd = tHelp
  /\ Render("help")

\* case "flags": return gc.printFlags(...)
DispatchFlags ==
  /\ pc = "resolved"
  /\ specialCmd = tFlags
  /\ Render("flags")

\* case "commands": return gc.printCommands(...)
DispatchCommands ==
  /\ pc = "resolved"
  /\ specialCmd = tCommands
  /\ Render("commands")

\* Faulty variant: a group without a subcommand is an error.
DispatchGroupFails ==
  /\ pc = "resolved"
  /\ specialCmd \notin specialCmds
  /\ ~HasFun(Last(cmdpath))
  /\ ret' = Error("NoCommand", NoTok)
  /\ pc' = "done"
  /\ UNCHANGED <<prev, nruns, clFlags, cmdsNil, cmds, argv, isOsArgs, args, i,
                 cmdpath, cmdDataMap, specialCmd, flagval, rest, consumed,
                 stdout, calls>>

\* fun == nil: return gc.printHelp(...)
DispatchGroup ==
  /\ pc = "resolved"
  /\ specialCmd \notin specialCmds
  /\ ~HasFun(Last(cmdpath))
  /\ Render("help")

\* Faulty variant: the executable is looked at before the marker.
DispatchFunFirst ==
  /\ pc = "resolved"
  /\ HasFun(Last(cmdpath))
  /\ \E r \in FunResults :
       /\ calls' = Append(calls, [node |-> Last(cmdpath), args |-> rest,
                                  flags |-> flagval, res |-> r])
       /\ ret' = r
  /\ pc' = "done"
  /\ UNCHANGED <<prev, nruns, clFlags, cmdsNil, cmds, argv, isOsArgs, args, i,
                 cmdpath, cmdDataMap, specialCmd, flagval, rest, consumed,
                 stdout>>

\* Faulty variant: the executable receives all the tokens.
DispatchFunAllArgs ==
  /\ pc = "resolved"
  /\ specialCmd \notin specialCmds
  /\ HasFun(Last(cmdpath))
  /\ \E r \in FunResults :
       /\ calls' = Append(calls, [node |-> Last(cmdpath), args |-> args,
                                  flags |-> flagval, res |-> r])
       /\ ret' = r
  /\ pc' = "done"
  /\ UNCHANGED <<prev, nruns, clFlags, cmdsNil, cmds, argv, isOsArgs, args, i,
                 cmdpath, cmdDataMap, specialCmd, flagval, rest, consumed,
                 stdout>>

\* return fun(ctx, args)
DispatchFun ==
  /\ pc = "resolved"
  /\ specialCmd \notin specialCmds
  /\ HasFun(Last(cmdpath))
  /\ \E r \in FunResults :
       /\ calls' = Append(calls, [node |-> Last(cmdpath), args |-> rest,
                                  flags |-> flagval, res |-> r])
       /\ ret' = r
  /\ pc' = "done"
  /\ UNCHANGED <<prev, nruns, clFlags, cmdsNil, cmds, argv, isOsArgs, args, i,
                 cmdpath, cmdDataMap, specialCmd, flagval, rest, consumed,
                 stdout>>

Next ==
  \/ RunNilCmds
  \/ RunPanic
  \/ RunResolve
  \/ ScanEnd
  \/ ScanSeparator
  \/ ScanArgument
  \/ ScanSubcommand
  \/ ScanSpecial
  \/ ScanNotFound
  \/ ScanBadFlag
  \/ ScanHelpFlag
  \/ ScanUnknownFlag
  \/ ScanBoolFlag
  \/ ScanMissingValue
  \/ ScanValueFlag
  \/ DispatchHelp
  \/ DispatchFlags
  \/ DispatchCommands
  \/ DispatchGroup
  \/ DispatchFun

Spec == Init /\ [][Next]_vars

(***************************************************************************)
(* Several calls of Run in one process, with the same commands: the flag   *)
(* variables, the standard output and the executables' effects outlive a   *)
(* call; everything else is local to it.                                   *)
(***************************************************************************)
MaxRuns == 2

\* The arguments of the calls.
RunArgLists ==
  { <<>>,
    <<tL, tV, tA>>, <<tL, tA>>, <<tL, tVeqFalse>>, <<tL, tFeq7>>, <<tL, tF>>,
    <<tL, tDashDashHelp>>,
    <<tG, tXeq5, tL>>, <<tG, tX, tG>>, <<tG, tL, tH>>, <<tG, tA, tA>>,
    <<tXeq5>>, <<tHelp>>, <<tFlags>>, <<tCommands>>, <<tH>>,
    <<tSep, tA>>, <<tA>>, <<tBad>>, <<tV>> }

InitRuns ==
  /\ Init
  /\ ~isOsArgs
  /\ argv \in RunArgLists

\* Run has returned and the program calls it again.  The root of the call
\* that returned is out of use; the next call builds its own (RunResolve).
RunAgain ==
  /\ pc = "done"
  /\ nruns < MaxRuns
  /\ nruns' = nruns + 1
  /\ argv' \in RunArgLists
  /\ pc' = "start"
  /\ args' = <<>>
  /\ i' = 0
  /\ cmdpath' = <<>>
  /\ cmdDataMap' = <<>>
  /\ rest' = <<>>
  /\ consumed' = <<>>
  /\ ret' = Nil
  /\ UNCHANGED <<prev, clFlags, cmdsNil, cmds, isOsArgs, specialCmd, flagval,
                 stdout, calls>>

NextRuns == Next \/ RunAgain

SpecRuns == InitRuns /\ [][NextRuns]_vars


\* The errors of resolve.
ResolveErrors ==
  {"CommandNotFound", "BadFlagSyntax", "UnknownFlag", "MissingFlagValue",
   "InvalidFlagValue"}

(***************************************************************************)
(* The same tokens resolved twice, each time against a tree as it was     *)
(* constructed: what the first resolve returned is kept for comparison.    *)
(***************************************************************************)
\* What one resolve leaves behind.
Outcome ==
  [cmdpath |-> cmdpath, rest |-> rest, specialCmd |-> specialCmd,
   flagval |-> flagval, ret |-> ret]

\* resolve has returned, with success or with an error.
Resolved == pc = "resolved" \/ (pc = "done" /\ ret.kind \in ResolveErrors)

ResolveAgain ==
  /\ Resolved
  /\ nruns < MaxRuns
  /\ nruns' = nruns + 1
  /\ prev' = Outcome
  /\ flagval' = [d \in Decls |-> DefaultVal(d)]
  /\ pc' = "start"
  /\ args' = <<>>
  /\ i' = 0
  /\ cmdpath' = <<>>
  /\ cmdDataMap' = <<>>
  /\ specialCmd' = NoTok
  /\ rest' = <<>>
  /\ consumed' = <<>>
  /\ ret' = Nil
  /\ UNCHANGED <<clFlags, cmdsNil, cmds, argv, isOsArgs, stdout, calls>>

NextTwice == Next \/ ResolveAgain

SpecTwice == Init /\ [][NextTwice]_vars

(***************************************************************************)
(* Properties.                                                             *)
(***************************************************************************)
\* Run has returned after a successful resolve.
Dispatched == pc = "done" /\ ret.kind \notin ResolveErrors \cup {"ErrInvalid"}

\* The children of the terminal node of the path, read from the tree.
TerminalChildren == Subcmds(Last(cmdpath), cmds)
ChildNames(list) == {NodeTab[list[k]].name : k \in 1..Len(list)}

\* The positions of the path whose node declares a flag named n.
Declaring(n) ==
  {k \in 1..Len(cmdpath) :
     \E d \in Registered : d[1] = cmdpath[k] /\ DeclName(d) = n}
DeclAt(k, n) ==
  CHOOSE d \in Registered : d[1] = cmdpath[k] /\ DeclName(d) = n
Deepest(n) ==
  CHOOSE k \in Declaring(n) : \A j \in Declaring(n) : j <= k

IsSuffix(q, r) ==
  Len(q) <= Len(r) /\ q = SubSeq(r, Len(r) - Len(q) + 1, Len(r))

C2_Original ==
  pc = "resolved"
    => \A p \in 1..Len(args) :
         args[p] = tSep => IsSuffix(SubSeq(args, p + 1, Len(args)), rest)

\* The first "--" of the tokens, and whether the look-ahead of a non-boolean
\* flag took the token at position p as a value.
FirstSep == CHOOSE p \in 1..Len(args) :
              args[p] = tSep /\ \A j \in 1..(p - 1) : args[j] # tSep
TakenAsValue(p) == p <= Len(consumed) /\ consumed[p] = "value"

\* C2 (amended): when resolve succeeds and the first "--" of the tokens was
\* not consumed as the value of a non-boolean flag, every token after it is
\* in the residual arguments, verbatim and in order.
C2_AfterSeparator ==
  (pc = "resolved" /\ (\E p \in 1..Len(args) : args[p] = tSep)
     /\ ~TakenAsValue(FirstSep))
    => IsSuffix(SubSeq(args, FirstSep + 1, Len(args)), rest)

\* g L -x=5 -- -v: the flag-like token after "--" is the residual argument.
C2_Witness ==
  /\ pc = "resolved"
  /\ args = <<tG, tL, tXeq5, tSep, tV>>
  /\ rest = <<tV>>
  /\ consumed[4] = "separator"

\* How each consumed token reads: used by C3.
ConsumedAs(k) ==
  CASE consumed[k] = "separator" -> args[k] = tSep /\ k = Len(consumed)
    [] consumed[k] = "subcommand" ->
         \E j \in 2..Len(cmdpath) : NodeTab[cmdpath[j]].name = args[k]
    [] consumed[k] = "special" -> args[k] \in specialCmds
    [] consumed[k] = "flag" -> Len(args[k]) >= 2 /\ args[k][1] = "-"
    [] consumed[k] = "helpflag" ->
         /\ Len(args[k]) >= 2 /\ args[k][1] = "-"
         /\ specialCmd # NoTok
    [] consumed[k] = "value" ->
         /\ k > 1
         /\ consumed[k - 1] = "flag"
         /\ \A j \in 1..Len(args[k - 1]) : args[k - 1][j] # "="
    [] OTHER -> FALSE

\* C3: when resolve succeeds the residual arguments are the tokens from the
\* position where the scan stopped to the end, and every token before that
\* position was consumed as a flag, a flag value, a subcommand name, a
\* reserved name or the separator.
C3_ResidualIsSuffix ==
  pc = "resolved"
    => /\ i <= Len(args)
       /\ rest = SubSeq(args, i + 1, Len(args))
       /\ Len(consumed) = i
       /\ \A k \in 1..i : ConsumedAs(k)
       /\ Cardinality({k \in 1..i : consumed[k] = "subcommand"})
            = Len(cmdpath) - 1

\* L -x g a: the leaf name, the flag and its value are consumed.
C3_Witness ==
  /\ pc = "resolved"
  /\ args = <<tL, tX, tG, tA>>
  /\ cmdpath = <<Root, 4>>
  /\ consumed = <<"subcommand", "flag", "value">>
  /\ rest = <<tA>>

\* C4: flags that follow a leaf name are applied, up to the first non-flag
\* token: when the token at p entered a leaf that declares the integer flag
\* f, the next token is -f=7 and the one after it does not start with '-',
\* the scan stops at that token with f = 7, and the leaf's executable
\* runs with f = 7 and receives the tokens from there on.
C4_FlagsAfterLeaf ==
  \A p \in 1..Len(args) :
    (/\ pc \in {"resolved", "done"}
     /\ Len(cmdpath) >= 2
     /\ ~NodeTab[Last(cmdpath)].group
     /\ Len(cmdpath) \in Declaring(<<"f">>)
     /\ p <= Len(consumed)
     /\ consumed[p] = "subcommand"
     /\ \A k \in (p + 1)..Len(consumed) : consumed[k] # "subcommand"
     /\ p + 2 <= Len(args)
     /\ args[p + 1] = tFeq7
     /\ Len(args[p + 2]) > 0
     /\ args[p + 2][1] # "-")
    => /\ i = p + 1
       /\ pc = "resolved"
            => /\ flagval[DeclAt(Len(cmdpath), <<"f">>)] = 7
               /\ rest = SubSeq(args, p + 2, Len(args))
       /\ (pc = "done" /\ specialCmd = NoTok)
            => /\ Len(calls) = 1
               /\ calls[1].node = Last(cmdpath)
               /\ calls[1].args = SubSeq(args, p + 2, Len(args))
               /\ calls[1].flags[DeclAt(Len(cmdpath), <<"f">>)] = 7

\* g L -f=7 a: the path is root, g, L; f is 7; L received a.
C4_Witness ==
  /\ pc = "done"
  /\ args = <<tG, tL, tFeq7, tA>>
  /\ cmdpath = <<Root, 1, 2>>
  /\ flagval[<<2, 1>>] = 7
  /\ rest = <<tA>>
  /\ Len(calls) = 1
  /\ calls[1].node = 2
  /\ calls[1].args = <<tA>>

\* C5: while the terminal node has no children, the first non-flag token
\* stops the scan with success: it and the tokens after it are the residual
\* arguments, and from then on no token sets a flag (the only change left
\* is a flag registered anew, at its default, by a command whose Command
\* method the help rendering calls).
C5_StopAtLeaf ==
  [][/\ (/\ Scanning
         /\ Tok # tSep
         /\ ~IsFlagTok(Tok)
         /\ (~NodeTab[Last(cmdpath)].group \/ Len(TerminalChildren) = 0))
        => /\ pc' = "resolved"
           /\ rest' = SubSeq(args, i + 1, Len(args))
           /\ flagval' = flagval
           /\ cmdpath' = cmdpath
           /\ specialCmd' = specialCmd
           /\ ret' = Nil
     /\ pc \in {"resolved", "done"}
          => \A d \in Decls :
               flagval'[d] # flagval[d]
                 => /\ NodeTab[d[1]].fresh
                    /\ flagval'[d] = DefaultVal(d)
                    /\ stdout' # stdout]_vars

\* L help -x=5: help is not looked up and -x=5 sets nothing.
C5_Witness ==
  /\ pc = "resolved"
  /\ args = <<tL, tHelp, tXeq5>>
  /\ cmdpath = <<Root, 4>>
  /\ rest = <<tHelp, tXeq5>>
  /\ specialCmd = NoTok
  /\ flagval[<<Root, 1>>] = <<"0">>

\* C6: while the terminal node has a child, a non-flag token that names none
\* of its children fails with CommandNotFound, unless the path has length 1
\* and the token is help, flags or commands.
C6_CommandNotFound ==
  [][(/\ Scanning
      /\ Tok # tSep
      /\ ~IsFlagTok(Tok)
      /\ Len(TerminalChildren) > 0
      /\ Tok \notin ChildNames(TerminalChildren)
      /\ ~(Len(cmdpath) = 1 /\ Tok \in specialCmds))
     => /\ pc' = "done"
        /\ ret' = Error("CommandNotFound", Tok)]_vars

\* g help: a reserved name after a group has been entered.
C6_Witness ==
  /\ pc = "done"
  /\ args = <<tG, tHelp>>
  /\ cmdpath = <<Root, 1>>
  /\ ret = Error("CommandNotFound", tHelp)

\* C7: a resolution error is what Run returns, and nothing was dispatched:
\* no executable was invoked and nothing was rendered.
C7_NoDispatchOnError ==
  ret.kind \in ResolveErrors
    => /\ pc = "done"
       /\ calls = <<>>
       /\ stdout = <<>>

\* help L -f: the marker is recorded and a leaf is reached before -f fails.
C7_Witness ==
  /\ pc = "done"
  /\ args = <<tHelp, tL, tF>>
  /\ specialCmd = tHelp
  /\ cmdpath = <<Root, 4>>
  /\ ret = Error("MissingFlagValue", <<"f">>)
  /\ calls = <<>>
  /\ stdout = <<>>

RenderKind(t) ==
  CASE t = tHelp -> "help" [] t = tFlags -> "flags"
    [] t = tCommands -> "commands"

\* C8: after a successful resolve with the marker set, Run has rendered the
\* output the marker names for the resolved path, returned success and
\* invoked no executable.
C8_SpecialDispatch ==
  /\ (pc = "resolved" /\ specialCmd # NoTok)
       => ENABLED (DispatchHelp \/ DispatchFlags \/ DispatchCommands)
  /\ (Dispatched /\ cmdpath # <<>> /\ specialCmd # NoTok)
       => /\ Len(stdout) = 1
          /\ stdout[1].kind = RenderKind(specialCmd)
          /\ stdout[1].path = cmdpath
          /\ ret = Nil
          /\ calls = <<>>

\* flags L: the path ends in a leaf, and its executable is not invoked.
C8_Witness ==
  /\ pc = "done"
  /\ args = <<tFlags, tL>>
  /\ cmdpath = <<Root, 4>>
  /\ Len(stdout) = 1
  /\ stdout[1].kind = "flags"
  /\ stdout[1].path = <<Root, 4>>
  /\ calls = <<>>

\* C9: after a successful resolve with no marker and a terminal node that
\* has no executable, Run has rendered the help of the path, returned
\* success and invoked no executable.
C9_GroupHelp ==
  /\ (pc = "resolved" /\ specialCmd = NoTok /\ ~HasFun(Last(cmdpath)))
       => ENABLED DispatchGroup
  /\ (Dispatched /\ cmdpath # <<>> /\ specialCmd = NoTok
        /\ ~HasFun(Last(cmdpath)))
       => /\ Len(stdout) = 1
          /\ stdout[1].kind = "help"
          /\ stdout[1].path = cmdpath
          /\ ret = Nil
          /\ calls = <<>>

\* -x=5 g: the terminal node is the group g.
C9_Witness ==
  /\ pc = "done"
  /\ args = <<tXeq5, tG>>
  /\ cmdpath = <<Root, 1>>
  /\ specialCmd = NoTok
  /\ Len(stdout) = 1
  /\ stdout[1].kind = "help"
  /\ stdout[1].path = <<Root, 1>>

\* C10: after a successful resolve with no marker and a leaf as terminal
\* node, exactly one executable was invoked, the leaf's, with the residual
\* arguments and with every flag as the scan left it; Run returned what the
\* executable returned, and nothing was rendered.
C10_LeafInvoked ==
  /\ (pc = "resolved" /\ specialCmd = NoTok /\ HasFun(Last(cmdpath)))
       => ENABLED DispatchFun
  /\ (Dispatched /\ cmdpath # <<>> /\ specialCmd = NoTok
        /\ HasFun(Last(cmdpath)))
       => /\ Len(calls) = 1
          /\ calls[1].node = Last(cmdpath)
          /\ calls[1].args = SubSeq(args, i + 1, Len(args))
          /\ calls[1].flags = flagval
          /\ ret = calls[1].res
          /\ stdout = <<>>

\* L -v a, and the executable fails: Run returns its error.
C10_Witness ==
  /\ pc = "done"
  /\ args = <<tL, tV, tA>>
  /\ Len(calls) = 1
  /\ calls[1].node = 4
  /\ calls[1].args = <<tA>>
  /\ calls[1].flags[<<4, 1>>] = TRUE
  /\ ret = Error("ExecutableError", NoTok)

(***************************************************************************)
(* Boolean and non-boolean flag values.                                    *)
(***************************************************************************)
AtBoolFlag ==
  /\ IsFlag
  /\ ~BadSyntax(StripDashes(Tok))
  /\ Found # NoDecl
  /\ DeclKind(Found) = "bool"

\* C11: a step of the scan at a token naming a boolean flag found on the
\* path sets the flag to true when the token has no inline value, to false
\* when the inline value is "false", and fails with InvalidFlagValue when
\* the inline value is not a boolean text; the step never moves the scan by
\* more than the flag token itself, so the following token is scanned next.
C11_BoolFlag ==
  [][AtBoolFlag =>
       LET body == StripDashes(Tok)
           d == Found
       IN  /\ ~HasValue(body)
                => /\ flagval' = [flagval EXCEPT ![d] = TRUE]
                   /\ pc' = "scan" /\ i' = i + 1
           /\ (HasValue(body)
                 /\ InlineValue(body) = <<"f", "a", "l", "s", "e">>)
                => /\ flagval' = [flagval EXCEPT ![d] = FALSE]
                   /\ pc' = "scan" /\ i' = i + 1
           /\ (HasValue(body) /\ InlineValue(body) = <<"n", "o">>)
                => /\ pc' = "done"
                   /\ ret' = Error("InvalidFlagValue", FlagName(body))
                   /\ flagval' = flagval
           /\ consumed' \in {consumed, Append(consumed, "flag")}
           /\ i' <= i + 1]_vars

\* L -v -v=false a, after -v: the flag is true and -v=false is the token
\* the scan is at.
C11_Witness ==
  /\ pc = "scan"
  /\ args = <<tL, tV, tVeqFalse, tA>>
  /\ i = 2
  /\ consumed = <<"subcommand", "flag">>
  /\ flagval[<<4, 1>>] = TRUE

\* C12: a step of the scan at a token naming a non-boolean flag found on
\* the path.  Without an inline value the next token, whatever it is, is
\* the value and the scan resumes after it; a flag token that is the last
\* token fails with MissingFlagValue; a value the flag's type rejects fails
\* with InvalidFlagValue; an inline value, the empty one included, leaves
\* the next token to the scan.
C12_ValueFlag ==
  [][IsValueFlag =>
       LET body == StripDashes(Tok)
           d == Found
           kind == DeclKind(Found)
           invalid == /\ pc' = "done"
                      /\ ret' = Error("InvalidFlagValue", FlagName(body))
                      /\ flagval' = flagval
       IN  /\ (~HasValue(body) /\ i + 1 < Len(args))
                => IF SetOk(kind, args[i + 2])
                   THEN /\ flagval' =
                             [flagval EXCEPT ![d] = SetVal(kind, args[i + 2])]
                        /\ pc' = "scan" /\ i' = i + 2
                        /\ consumed' = consumed \o <<"flag", "value">>
                   ELSE invalid
           /\ (~HasValue(body) /\ i + 1 = Len(args))
                => /\ pc' = "done"
                   /\ ret' = Error("MissingFlagValue", FlagName(body))
                   /\ flagval' = flagval
           /\ HasValue(body)
                => IF SetOk(kind, InlineValue(body))
                   THEN /\ flagval' =
                             [flagval EXCEPT
                                ![d] = SetVal(kind, InlineValue(body))]
                        /\ pc' = "scan" /\ i' = i + 1
                        /\ consumed' = Append(consumed, "flag")
                   ELSE invalid /\ i' = i]_vars

\* -x -f g: -f is the value of x although it looks like a flag, and g is
\* scanned next and entered.
C12_Witness ==
  /\ args = <<tX, tF, tG>>
  /\ pc = "resolved"
  /\ flagval[<<Root, 1>>] = tF
  /\ consumed = <<"flag", "value", "subcommand">>
  /\ cmdpath = <<Root, 1>>

(***************************************************************************)
(* Flag values across calls of Run.                                        *)
(***************************************************************************)
\* The scan is at a flag token that names declaration d.
SetsFlag(d) ==
  /\ Scanning
  /\ IsFlag
  /\ ~BadSyntax(StripDashes(Tok))
  /\ Found = d

\* C13 as stated: over any number of calls a flag changes only in a scan
\* step at a token that names it, so that each call starts from the values
\* the earlier calls left and Run never puts a default back.
C13_Original ==
  [][\A d \in Decls : flagval'[d] # flagval[d] => SetsFlag(d)]_vars

\* C13, amended: that holds for every flag of a command that keeps its
\* FlagSet; the only other change is to a flag of a command that registers
\* its flags in Command, which is put back to its default.  The step that
\* begins the next call changes no flag.
C13_FlagsPersist ==
  [][/\ \A d \in Decls :
          flagval'[d] # flagval[d]
            => \/ SetsFlag(d)
               \/ /\ NodeTab[d[1]].fresh
                  /\ flagval'[d] = DefaultVal(d)
                  /\ ~Scanning \/ (~IsFlagTok(Tok) /\ cmdpath' # cmdpath)
     /\ nruns' # nruns => flagval' = flagval]_vars

\* The first call g -x=5 L left x of g at 5 (the executable of L saw it);
\* the second call, g -x g, starts its scan with x still 5.
C13_Witness ==
  /\ nruns = 2
  /\ args = <<tG, tX, tG>>
  /\ pc = "scan"
  /\ i = 0
  /\ Len(calls) = 1
  /\ calls[1].flags[<<1, 1>>] = <<"5">>
  /\ flagval[<<1, 1>>] = <<"5">>

(***************************************************************************)
(* Failure of resolve.                                                     *)
(***************************************************************************)
\* The errors the token at the scan index can cause, by its shape alone.
ErrorsOfTok ==
  IF ~IsFlagTok(Tok) THEN {Error("CommandNotFound", Tok)}
  ELSE IF BadSyntax(StripDashes(Tok)) THEN {Error("BadFlagSyntax", Tok)}
  ELSE IF Found = NoDecl THEN {Error("UnknownFlag", Name)}
  ELSE {Error("MissingFlagValue", Name), Error("InvalidFlagValue", Name)}

\* C14: the step in which resolve fails is at the first token that was not
\* consumed, returns an error of that token, and leaves every flag, the
\* path and the special marker as the tokens before it made them; after it
\* the call takes no further step.
C14_NoUndo ==
  [][/\ (pc = "scan" /\ pc' = "done")
          => /\ Len(consumed) = i
             /\ i < Len(args)
             /\ ret' \in ErrorsOfTok
             /\ flagval' = flagval
             /\ cmdpath' = cmdpath
             /\ specialCmd' = specialCmd
             /\ consumed' = consumed
     /\ ~(pc = "done" /\ ret.kind \in ResolveErrors)]_vars

\* -x=5 ---x g: x keeps 5, ---x fails, and g is never entered.
C14_Witness ==
  /\ args = <<tXeq5, tBad, tG>>
  /\ pc = "done"
  /\ ret = Error("BadFlagSyntax", tBad)
  /\ flagval[<<Root, 1>>] = <<"5">>
  /\ cmdpath = <<Root>>
  /\ i = 1

MarkerTokens ==
  {k \in 1..Len(consumed) : consumed[k] \in {"special", "helpflag"}}
MarkOf(k) == IF consumed[k] = "special" THEN args[k] ELSE tHelp
Min(S) == CHOOSE k \in S : \A j \in S : k <= j
Max(S) == CHOOSE k \in S : \A j \in S : j <= k

\* C16 as stated: at most one token of a scan assigns the marker, and the
\* marker is what the first such token gave it.
C16_Original ==
  /\ Cardinality(MarkerTokens) <= 1
  /\ (pc \in {"scan", "resolved"} /\ MarkerTokens # {})
       => specialCmd = MarkOf(Min(MarkerTokens))

\* C16, amended: any number of tokens may assign the marker, and the marker
\* is what the last of them gave it (none if there was no such token).
C16_LastMarkerWins ==
  pc \in {"scan", "resolved", "done"}
    => specialCmd = IF MarkerTokens = {} THEN NoTok
                    ELSE MarkOf(Max(MarkerTokens))

\* help flags: both tokens assign the marker, and flags is what stays.
C16_Witness ==
  /\ args = <<tHelp, tFlags>>
  /\ pc = "resolved"
  /\ consumed = <<"special", "special">>
  /\ specialCmd = tFlags

(***************************************************************************)
(* The help flag.                                                          *)
(***************************************************************************)
\* The scan is at a token -help, -h, --help or --h, with or without =value.
AtHelpFlag ==
  /\ Scanning
  /\ IsFlag
  /\ ~BadSyntax(StripDashes(Tok))
  /\ FlagName(StripDashes(Tok)) \in {tHelp, <<"h">>}

\* Some node of the path declares a flag of the token's name.
HelpDeclared ==
  \E k \in 1..Len(cmdpath) :
    FsetLookup(cmdpath[k], FlagName(StripDashes(Tok))) # NoDecl

\* C17 as stated: such a token always sets the marker to help, consumes
\* nothing else and does not fail.
C17_Original ==
  [][AtHelpFlag
       => /\ specialCmd' = tHelp
          /\ pc' = "scan"
          /\ i' = i + 1]_vars

\* C17, amended: it does so, at any depth, when no node of the path
\* declares a flag of that name; when one does, the token is the flag of
\* that node and the marker stays as it is.
C17_HelpFlag ==
  [][AtHelpFlag
       => IF HelpDeclared
          THEN /\ specialCmd' = specialCmd
               /\ consumed' \in {consumed, Append(consumed, "flag"),
                                 consumed \o <<"flag", "value">>}
          ELSE /\ specialCmd' = tHelp
               /\ pc' = "scan"
               /\ i' = i + 1
               /\ consumed' = Append(consumed, "helpflag")
               /\ flagval' = flagval
               /\ cmdpath' = cmdpath]_vars

\* g L --help a: the marker is set at depth 3, and a is scanned next.
C17_Witness ==
  /\ args = <<tG, tL, tDashDashHelp, tA>>
  /\ pc = "resolved"
  /\ cmdpath = <<Root, 1, 2>>
  /\ consumed = <<"subcommand", "subcommand", "helpflag">>
  /\ specialCmd = tHelp
  /\ rest = <<tA>>

(***************************************************************************)
(* The arguments of Run.                                                   *)
(***************************************************************************)
\* Nothing has been scanned, set, rendered or invoked.
Untouched ==
  /\ consumed = <<>>
  /\ flagval = [d \in Decls |-> DefaultVal(d)]
  /\ stdout = <<>>
  /\ calls = <<>>

\* C18 as stated: with an empty command list Run fails with the error of an
\* invalid tree before any token is scanned, whatever the tokens are.
C18_Original ==
  cmds = <<>>
    => /\ pc \in {"start", "done"}
       /\ pc = "done" => ret = Error("ErrInvalid", NoTok)
       /\ Untouched

\* C18, what Run does: it fails so for a nil command list only; an empty
\* list that is not nil is resolved like any other and never gives that
\* error.
C18_NilOnly ==
  /\ cmdsNil
       => /\ pc \in {"start", "done"}
          /\ pc = "done" => ret = Error("ErrInvalid", NoTok)
          /\ Untouched
  /\ (~cmdsNil /\ pc = "done") => ret.kind # "ErrInvalid"

\* Run(ctx, []Command{}, {"-x=5"}): x is set, the root's help is printed
\* and Run returns nil.
C18_Witness ==
  /\ ~cmdsNil
  /\ cmds = <<>>
  /\ args = <<tXeq5>>
  /\ pc = "done"
  /\ flagval[<<Root, 1>>] = <<"5">>
  /\ Len(stdout) = 1
  /\ stdout[1].kind = "help"
  /\ ret = Nil

\* Run is given no tokens: os.Args with the program name alone, or an empty
\* slice.
NoTokens == IF isOsArgs THEN Len(argv) = 1 ELSE argv = <<>>

\* Run has returned after rendering the root's help.
RootHelp ==
  /\ cmdpath = <<Root>>
  /\ rest = <<>>
  /\ specialCmd = NoTok
  /\ Len(stdout) = 1
  /\ stdout[1].kind = "help"
  /\ stdout[1].path = <<Root>>
  /\ calls = <<>>
  /\ ret = Nil

\* C19 as stated: with no tokens and a command list that is not nil, Run
\* does not crash, and it returns after rendering the root's help.
C19_Original ==
  (~cmdsNil /\ NoTokens)
    => /\ pc # "panic"
       /\ pc = "done" => RootHelp

\* C19, what Run does: that is so when the caller passed os.Args; with an
\* empty slice of its own Run indexes args[0] and panics before resolve.
C19_EmptyArgs ==
  (~cmdsNil /\ NoTokens)
    => IF isOsArgs
       THEN /\ pc # "panic"
            /\ pc = "done" => RootHelp
            /\ pc = "resolved" => ENABLED DispatchGroup
       ELSE /\ pc \in {"start", "panic"}
            /\ Untouched
            /\ pc = "start" => ENABLED RunPanic

\* Run(ctx, cmds, os.Args) for the command line ./cli.
C19_Witness ==
  /\ isOsArgs
  /\ argv = <<tProg>>
  /\ cmds = TopCmds
  /\ pc = "done"
  /\ RootHelp

(***************************************************************************)
(* The usage line.                                                         *)
(***************************************************************************)
\* The words of a line: what its single spaces separate.
RECURSIVE Words(_)
Words(line) ==
  LET spaces == {k \in 1..Len(line) : line[k] = " "}
  IN  IF spaces = {} THEN <<line>>
      ELSE LET k == CHOOSE j \in spaces : \A h \in spaces : j <= h
           IN  <<SubSeq(line, 1, k - 1)>>
                 \o Words(SubSeq(line, k + 1, Len(line)))

\* Some node of the path has a flag, read from the tree.
PathHasFlags(path) ==
  \E k \in 1..Len(path) :
    IF path[k] = Root THEN clFlags ELSE NodeTab[path[k]].flags # <<>>

HelpsRendered == {k \in 1..Len(stdout) : stdout[k].kind = "help"}

\* C20 as stated: the words of the usage line of every help are the root's
\* display name, <flags> if a node of the path has a flag, the names of the
\* nodes after the root, <subcommand> if the last node is a group, <args>.
C20_Original ==
  \A h \in HelpsRendered :
    LET path == stdout[h].path
        w == Words(stdout[h].usage)
        n == Len(path)
        f == IF PathHasFlags(path) THEN 1 ELSE 0
        g == IF NodeTab[path[n]].group THEN 1 ELSE 0
    IN  /\ Len(w) = n + f + g + 1
        /\ w[1] = <<"c", "l", "i">>
        /\ f = 1 => w[2] = WordFlags
        /\ \A k \in 2..n : w[k + f] = NodeTab[path[k]].name
        /\ g = 1 => w[n + f + 1] = WordSubcommand
        /\ w[Len(w)] = WordArgs

\* C20, amended: the words are the root's display name, the FlagSet names
\* of the nodes after the root, then <flags>, then <subcommand>, then
\* <args>, the second and the third under the same conditions.
C20_UsageLine ==
  \A h \in HelpsRendered :
    LET path == stdout[h].path
        w == Words(stdout[h].usage)
        n == Len(path)
        f == IF PathHasFlags(path) THEN 1 ELSE 0
        g == IF NodeTab[path[n]].group THEN 1 ELSE 0
    IN  /\ Len(w) = n + f + g + 1
        /\ w[1] = <<"c", "l", "i">>
        /\ \A k \in 2..n : w[k] = NodeTab[path[k]].fset
        /\ f = 1 => w[n + 1] = WordFlags
        /\ g = 1 => w[n + f + 1] = WordSubcommand
        /\ w[Len(w)] = WordArgs

\* g --help: cli g <flags> <subcommand> <args>
C20_Witness ==
  /\ args = <<tG, tDashDashHelp>>
  /\ pc = "done"
  /\ Len(stdout) = 1
  /\ stdout[1].path = <<Root, 1>>
  /\ stdout[1].usage =
       <<"c", "l", "i", " ", "g", " ", "<", "f", "l", "a", "g", "s", ">", " ",
         "<", "s", "u", "b", "c", "o", "m", "m", "a", "n", "d", ">", " ",
         "<", "a", "r", "g", "s", ">">>

(***************************************************************************)
(* The tables of the help.                                                 *)
(***************************************************************************)
TablesRendered ==
  {k \in 1..Len(stdout) : stdout[k].kind \in {"help", "commands"}}

\* The children of the last node of a path that are groups, or are not.
ChildrenOf(path, group) ==
  IF NodeTab[Last(path)].group
  THEN {k \in 1..Len(Subcmds(Last(path), cmds)) :
          NodeTab[Subcmds(Last(path), cmds)[k]].group = group}
  ELSE {}

\* Rows from..to of table t are the names of the children at positions ks
\* of the last node of the path, each as often as it occurs, and no row is
\* below the row before it.
IsSortedBlock(t, from, to, path, ks) ==
  /\ to - from + 1 = Cardinality(ks)
  /\ \A j \in from..to :
       Cardinality({h \in from..to : t[h] = t[j]}) =
         Cardinality({k \in ks :
                        NodeTab[Subcmds(Last(path), cmds)[k]].name = t[j]})
  /\ \A j \in from..(to - 1) : ~LessStr(t[j + 1], t[j])

AncestorsWith(path, nm) ==
  {k \in 1..(Len(path) - 1) :
     \E d \in Registered : d[1] = path[k] /\ DeclName(d) = nm}

\* C22: the inherited-flags table of every help has one entry for each flag
\* name that a node of the path before the last declares and no other
\* entry, and the entry of a name is the declaration of the deepest such
\* node.
C22_InheritedFlags ==
  \A r \in HelpsRendered :
    LET path == stdout[r].path
        t == stdout[r].iflags
    IN  /\ \A j, k \in 1..Len(t) : DeclName(t[j]) = DeclName(t[k]) => j = k
        /\ {DeclName(t[k]) : k \in 1..Len(t)} =
             {DeclName(d) : d \in {e \in Registered :
                                     \E k \in 1..(Len(path) - 1) :
                                       e[1] = path[k]}}
        /\ \A k \in 1..Len(t) :
             LET ks == AncestorsWith(path, DeclName(t[k]))
             IN  /\ ks # {}
                 /\ t[k] \in Registered
                 /\ t[k][1] = path[CHOOSE a \in ks : \A b \in ks : b <= a]

\* g L --help a, with x declared by the root and by g: the help of L shows
\* the x of g, and neither f nor h of L.
C22_Witness ==
  /\ clFlags
  /\ args = <<tG, tL, tDashDashHelp, tA>>
  /\ pc = "done"
  /\ Len(stdout) = 1
  /\ stdout[1].path = <<Root, 1, 2>>
  /\ stdout[1].iflags = << <<1, 1>> >>

\* The flags registered on node n.
FlagsOf(n) == {d \in Registered : d[1] = n}

\* C23 as stated: the own-flags table of every help lists the flags of the
\* last node of the path, each once, in the order of their declaration.
C23_Original ==
  \A r \in HelpsRendered :
    LET n == Last(stdout[r].path)
        t == stdout[r].flags
    IN  /\ Len(t) = Cardinality(FlagsOf(n))
        /\ \A k \in 1..Len(t) : t[k] = <<n, k>>

\* C23, amended: it lists them, each once, in the order of their names.
C23_OwnFlags ==
  \A r \in HelpsRendered :
    LET n == Last(stdout[r].path)
        t == stdout[r].flags
    IN  /\ Len(t) = Cardinality(FlagsOf(n))
        /\ {t[k] : k \in 1..Len(t)} = FlagsOf(n)
        /\ \A k \in 1..(Len(t) - 1) :
             LessStr(DeclName(t[k]), DeclName(t[k + 1]))

\* L --help for the top-level L, which declares v and then f: f is printed
\* before v.
C23_Witness ==
  /\ args = <<tL, tDashDashHelp>>
  /\ pc = "done"
  /\ Len(stdout) = 1
  /\ stdout[1].path = <<Root, 4>>
  /\ stdout[1].flags = << <<4, 2>>, <<4, 1>> >>

(***************************************************************************)
(* The path.                                                               *)
(***************************************************************************)
\* The children of node n, read from the tree.
Children(n) ==
  IF NodeTab[n].group THEN Range(Subcmds(n, cmds)) ELSE {}

\* The path is the root followed by a chain of children, with a leaf only
\* at its end; while the scan runs the map of the active children holds the
\* children of the last node, by name.
PathOk ==
  /\ Len(cmdpath) >= 1
  /\ cmdpath[1] = Root
  /\ \A k \in 2..Len(cmdpath) :
       /\ NodeTab[cmdpath[k - 1]].group
       /\ cmdpath[k] \in Children(cmdpath[k - 1])
  /\ pc = "scan"
       => /\ DOMAIN cmdDataMap =
               {NodeTab[c].name : c \in Children(Last(cmdpath))}
          /\ \A nm \in DOMAIN cmdDataMap :
               /\ cmdDataMap[nm] \in Children(Last(cmdpath))
               /\ NodeTab[cmdDataMap[nm]].name = nm

\* C24: from the start of the scan on, every state has a path as above,
\* and a step leaves the path as it is or appends one node to it.
C24_PathInvariant ==
  [][/\ (pc' \in {"scan", "resolved"} \/ (pc' = "done" /\ ~cmdsNil))
          => PathOk'
     /\ pc \in {"scan", "resolved"}
          => \/ cmdpath' = cmdpath
             \/ /\ pc = "scan"
                /\ Len(cmdpath') = Len(cmdpath) + 1
                /\ SubSeq(cmdpath', 1, Len(cmdpath)) = cmdpath]_vars

\* g L -f=7 a, after L: the path is root, g, L and no child is active.
C24_Witness ==
  /\ args = <<tG, tL, tFeq7, tA>>
  /\ pc = "scan"
  /\ i = 2
  /\ cmdpath = <<Root, 1, 2>>
  /\ DOMAIN cmdDataMap = {}

(***************************************************************************)
(* Flags and the path at the time of the scan.                             *)
(***************************************************************************)
\* The scan is at a well-formed flag token.
AtFlag == Scanning /\ IsFlag /\ ~BadSyntax(StripDashes(Tok))

\* C25: a flag token whose name no node of the present path declares, and
\* which is not a help flag, fails with UnknownFlag and sets nothing,
\* whatever the nodes not yet entered declare; and a flag token changes
\* flags of nodes of the present path only.
C25_PathAtScanTime ==
  [][AtFlag
       => LET nm == FlagName(StripDashes(Tok))
          IN  /\ (Declaring(nm) = {} /\ nm \notin {tHelp, <<"h">>})
                   => /\ pc' = "done"
                      /\ ret' = Error("UnknownFlag", nm)
                      /\ flagval' = flagval
              /\ \A d \in Decls :
                   flagval'[d] # flagval[d]
                     => \E k \in 1..Len(cmdpath) : cmdpath[k] = d[1]]_vars

\* -f=7 L: the top-level L declares f, but the scan is at the root, and the
\* token fails before L is entered.
C25_Witness ==
  /\ cmds = TopCmds
  /\ args = <<tFeq7, tL>>
  /\ pc = "done"
  /\ ret = Error("UnknownFlag", <<"f">>)
  /\ cmdpath = <<Root>>
  /\ i = 0
  /\ flagval[<<4, 2>>] = 8

(***************************************************************************)
(* Reserved names and the children of the root.                            *)
(***************************************************************************)
\* The scan is at a token that is not a flag and not the separator, with
\* the root alone on the path and at least one child of the root.
AtTopLevelName ==
  /\ Scanning
  /\ Tok # tSep
  /\ ~IsFlagTok(Tok)
  /\ cmdpath = <<Root>>
  /\ cmds # <<>>

\* C26: a reserved name scanned there that is not the name of a child of
\* the root sets the marker to that name, leaves the path, the active
\* children and the flags as they are, and the scan goes on with the next
\* token.
C26_SpecialContinues ==
  [][(/\ AtTopLevelName
      /\ Tok \in {tHelp, tFlags, tCommands}
      /\ \A k \in 1..Len(cmds) : NodeTab[cmds[k]].name # Tok)
       => /\ specialCmd' = Tok
          /\ cmdpath' = cmdpath
          /\ cmdDataMap' = cmdDataMap
          /\ flagval' = flagval
          /\ pc' = "scan"
          /\ i' = i + 1]_vars

\* help g L: the path is root, g, L, and the help printed is that of L.
C26_Witness ==
  /\ cmds = TopCmds
  /\ args = <<tHelp, tG, tL>>
  /\ pc = "done"
  /\ specialCmd = tHelp
  /\ cmdpath = <<Root, 1, 2>>
  /\ ret = Nil
  /\ calls = <<>>
  /\ Len(stdout) = 1
  /\ stdout[1].kind = "help"
  /\ stdout[1].path = <<Root, 1, 2>>

(***************************************************************************)
(* The syntax of a flag token.                                             *)
(***************************************************************************)
\* What is left of a token after one leading dash, or two.
Undashed(t) ==
  IF Len(t) >= 2 /\ t[2] = "-" THEN SubSeq(t, 3, Len(t))
  ELSE SubSeq(t, 2, Len(t))
EqualSigns(body) == {k \in 1..Len(body) : body[k] = "="}
FirstEq(body) ==
  CHOOSE k \in EqualSigns(body) : \A j \in EqualSigns(body) : k <= j

\* C27: a token of two or more characters that starts with a dash and is
\* not -- is a flag token.  If what follows its one or two dashes is empty
\* or starts with a dash or an equal sign, the step fails with
\* BadFlagSyntax for the token and sets nothing; otherwise the name is what
\* precedes the first equal sign, the step is never BadFlagSyntax, an
\* error it returns is for that name, and a string flag of that name gets
\* all that follows the first equal sign.  Any other token, the bare dash
\* included, changes no flag: it is an argument, a name looked up among
\* the children, or not found as a command.
C27_FlagSyntax ==
  [][(Scanning /\ Tok # tSep)
       => IF Len(Tok) >= 2 /\ Tok[1] = "-"
          THEN LET body == Undashed(Tok)
               IN  IF body = <<>> \/ body[1] \in {"-", "="}
                   THEN /\ pc' = "done"
                        /\ ret' = Error("BadFlagSyntax", Tok)
                        /\ flagval' = flagval
                   ELSE LET nm == IF EqualSigns(body) = {} THEN body
                                  ELSE SubSeq(body, 1, FirstEq(body) - 1)
                            val == SubSeq(body, FirstEq(body) + 1, Len(body))
                        IN  /\ ret'.kind # "BadFlagSyntax"
                            /\ cmdpath' = cmdpath
                            /\ pc' = "done" => ret'.tok = nm
                            /\ (/\ EqualSigns(body) # {}
                                /\ Declaring(nm) # {}
                                /\ DeclKind(DeclAt(Deepest(nm), nm)) = "string")
                                 => /\ flagval'[DeclAt(Deepest(nm), nm)] = val
                                    /\ i' = i + 1
          ELSE /\ flagval' = flagval
               /\ \/ pc' = "resolved" /\ rest' = SubSeq(args, i + 1, Len(args))
                  \/ pc' = "done" /\ ret' = Error("CommandNotFound", Tok)
                  \/ pc' = "scan" /\ i' = i + 1]_vars

\* -x=a=b: the root's x is a=b.
C27_Witness ==
  /\ clFlags
  /\ args = <<tXeqAeqB>>
  /\ pc = "resolved"
  /\ flagval[<<Root, 1>>] = <<"a", "=", "b">>
  /\ rest = <<>>

\* C28: a reserved name scanned at the top level that is the name of a
\* child of the root enters that child: the child is appended to the path,
\* the marker stays as it is, and the scan goes on.
C28_ChildBeforeSpecial ==
  [][(/\ AtTopLevelName
      /\ Tok \in {tHelp, tFlags, tCommands}
      /\ \E k \in 1..Len(cmds) : NodeTab[cmds[k]].name = Tok)
       => /\ Len(cmdpath') = 2
          /\ cmdpath'[1] = Root
          /\ cmdpath'[2] \in Range(cmds)
          /\ NodeTab[cmdpath'[2]].name = Tok
          /\ specialCmd' = specialCmd
          /\ pc' = "scan"
          /\ i' = i + 1]_vars

\* help a, for a root with a leaf named help: the leaf is invoked with a
\* and no help is printed.
C28_Witness ==
  /\ cmds = ShadowCmds
  /\ args = <<tHelp, tA>>
  /\ pc = "done"
  /\ specialCmd = NoTok
  /\ cmdpath = <<Root, 5>>
  /\ Len(calls) = 1
  /\ calls[1].node = 5
  /\ calls[1].args = <<tA>>
  /\ stdout = <<>>

\* The tokens this call has scanned so far set the marker: a reserved name
\* or a help flag is among them.
MarkerScanned ==
  \E k \in 1..Len(consumed) : consumed[k] \in {"special", "helpflag"}

\* C29: in every call of a sequence of Run calls on the same commands the
\* marker is none when the scan starts and is set only by a reserved name or
\* a help flag of this call; a call without either that ends at a leaf
\* invokes the leaf with the residual arguments and prints nothing, whatever
\* the earlier calls were.
C29_MarkerPerCall ==
  /\ (pc = "scan" /\ i = 0) => specialCmd = NoTok
  /\ pc \in {"scan", "resolved"} => (specialCmd # NoTok <=> MarkerScanned)
  /\ (pc = "resolved" /\ ~MarkerScanned /\ HasFun(Last(cmdpath)))
       => /\ ENABLED DispatchFun
          /\ ~ENABLED DispatchHelp
          /\ ~ENABLED DispatchFlags
          /\ ~ENABLED DispatchCommands
          /\ ~ENABLED DispatchGroup

\* Run help, then Run L a on the same commands: the first call printed the
\* help of the root, the second invoked the leaf with a.
C29_Witness ==
  /\ nruns = 2
  /\ pc = "done"
  /\ args = <<tL, tA>>
  /\ specialCmd = NoTok
  /\ Len(stdout) = 1
  /\ stdout[1].kind = "help"
  /\ stdout[1].path = <<Root>>
  /\ Len(calls) = 1
  /\ calls[1].node = 4
  /\ calls[1].args = <<tA>>

\* The index stays within the tokens.
IndexInRange == 0 <= i /\ i <= Len(args)

\* One iteration that goes on to the next: the index grows by 1, or by 2
\* when the look-ahead took the value of a flag from the next token, which
\* exists.
IterationAdvances ==
  (pc = "scan" /\ pc' = "scan")
    => /\ i < Len(args)
       /\ IF IsValueFlag /\ LookAhead
          THEN /\ i + 2 <= Len(args)
               /\ i' = i + 2
               /\ consumed' = consumed \o <<"flag", "value">>
          ELSE /\ i' = i + 1
               /\ Len(consumed') = Len(consumed) + 1

\* The end of the scan: the residual arguments are cut at an index within
\* the tokens that is not before the token scanned last; "--" is left out.
CutInRange ==
  (pc = "scan" /\ pc' = "resolved")
    => /\ i <= i'
       /\ i' <= Len(args)
       /\ rest' = SubSeq(args, i' + 1, Len(args))
       /\ Len(rest') = Len(args) - i'
       /\ (Scanning /\ Tok = tSep) => i' = i + 1

\* C30: the scan index never leaves 0..Len(args), every iteration that
\* goes on moves it forward by 1, or by 2 when the look-ahead consumed the
\* next token as a flag value, and the residual arguments are cut at an
\* index within the tokens; the number of tokens left strictly decreases,
\* so the scan ends.
C30_ScanInRange ==
  /\ []IndexInRange
  /\ [][IterationAdvances /\ CutInRange]_vars

\* -x a: the value of the last flag is the last token, the scan ends with
\* the index at the length of the tokens and nothing left over.
C30_Witness ==
  /\ clFlags
  /\ args = <<tX, tA>>
  /\ pc = "resolved"
  /\ i = Len(args)
  /\ consumed = <<"flag", "value">>
  /\ flagval[<<Root, 1>>] = tA
  /\ rest = <<>>

(***************************************************************************)
(* Declared flags named h or help.                                         *)
(***************************************************************************)
\* C31: a step of the scan at -h or -help (one or two dashes, with or
\* without =value) while a node of the path declares a flag of that name
\* is a step of the ordinary flag rules on that flag: a boolean flag is set
\* to true, or to its inline value; a non-boolean flag takes its inline
\* value or else the next token, which the scan then skips, and fails with
\* MissingFlagValue when there is none.  The marker stays as it is and the
\* token is never counted as a help alias.
C31_DeclaredHelpFlag ==
  [][(AtHelpFlag /\ HelpDeclared) =>
       LET body == StripDashes(Tok)
           d == Found
           kind == DeclKind(Found)
           text == IF HasValue(body) THEN InlineValue(body)
                   ELSE IF kind = "bool" THEN <<"t", "r", "u", "e">>
                   ELSE args[i + 2]
           ahead == ~HasValue(body) /\ kind # "bool"
       IN  /\ d # NoDecl
           /\ d[1] \in Range(cmdpath)
           /\ DeclName(d) = FlagName(body)
           /\ specialCmd' = specialCmd
           /\ \A k \in 1..Len(consumed') : consumed'[k] = "helpflag"
                => k <= Len(consumed) /\ consumed[k] = "helpflag"
           /\ IF ahead /\ i + 1 = Len(args)
              THEN /\ pc' = "done"
                   /\ ret' = Error("MissingFlagValue", FlagName(body))
                   /\ flagval' = flagval
              ELSE IF SetOk(kind, text)
              THEN /\ flagval' = [flagval EXCEPT ![d] = SetVal(kind, text)]
                   /\ pc' = "scan"
                   /\ i' = IF ahead THEN i + 2 ELSE i + 1
                   /\ consumed' = IF ahead
                                  THEN consumed \o <<"flag", "value">>
                                  ELSE Append(consumed, "flag")
              ELSE /\ pc' = "done"
                   /\ ret' = Error("InvalidFlagValue", FlagName(body))
                   /\ flagval' = flagval]_vars

\* a --help -h -v: help of the command a is set to true, h takes the next
\* token -v as its value, no help is asked for and a is invoked.
C31_Witness ==
  /\ cmds = HelpCmds
  /\ args = <<tA, tDashDashHelp, tH, tV>>
  /\ pc = "done"
  /\ specialCmd = NoTok
  /\ consumed = <<"subcommand", "flag", "flag", "value">>
  /\ flagval[<<6, 1>>] = tV
  /\ flagval[<<6, 2>>] = TRUE
  /\ stdout = <<>>
  /\ Len(calls) = 1
  /\ calls[1].node = 6
  /\ calls[1].args = <<>>

====
